---- MODULE Spec2Model ----
(***************************************************************************)
(* A model of lcd-core: the batch orchestration engine of                  *)
(* src/src/miner/entry.rs (switch_if_need with its ERR_MAP failure         *)
(* counter, scan, watching, reboot_batch, config_batch) and the Avalon     *)
(* protocol client of src/src/miner/avalon.rs (tcp_cmd read loop and       *)
(* switch_if_need).  Each part has its own specification over the shared   *)
(* variables; the parts a specification does not exercise stay idle.       *)
(***************************************************************************)
EXTENDS Integers, Sequences, FiniteSets, TLC

VARIABLES
    \* ---- entry.rs: switch_if_need and the process-wide ERR_MAP
    machine_map,        \* inventory rows loaded for the cycles (sheet order)
    ERR_MAP,            \* lazy_static ERR_MAP: key -> count
    lock,               \* holder of the ERR_MAP mutex, 0 when free
    pc,                 \* position of each switch_if_need call
    idx,                \* position of the dispatch loop in the iteration order
    handles,            \* per call: the spawned tasks' results ("pending" until done)
    process_machines,   \* per call: the machines a task was spawned for, in order
    error_ips,          \* per call: the failure list built after the join
    ei,                 \* per call: position of the counting loop in error_ips
    selected_ips,       \* per call: keys whose count reached the threshold
    account_type,       \* the active profile the account schedule resolves to
    perf_mode,          \* the mode the performance schedule resolves to
    sheets,             \* the two schedule sheets: rows of start, end, label
    spc,                \* position of the schedule resolution of switch_if_need
    srow,               \* the row of the sheet the lookup loop is at
    reads,              \* the local times the lookups read, row by row
    sret,               \* what the resolution made switch_if_need return
    spawned,            \* per call: the switch tasks spawned, in order
    finished,           \* per call: the tasks that finished, in completion order
    ended,              \* per call: how the last call ended, <<"None">> while it runs
    \* ---- history of completed switch_if_need cycles (observation only)
    cycles,             \* number of switch_if_need calls that returned
    streak,             \* per ip: failed cycles in a row, capped at THRESHOLD
    allFailed,          \* per ip: failed in every cycle so far
    lastAlert,          \* ips named by the notification of the last returned cycle
    counts_before,      \* ERR_MAP as the running cycle found it when it took the lock
    tally,              \* per ip: failures counted and alerts sent (kept for overlapping calls)
    \* ---- entry.rs: scan / watching / reboot_batch / config_batch
    bop,                \* the batch operation called, "none" before the call
    bargs,              \* scan's arguments and the prefix it formed
    bips,               \* its target ips, in spawn order (scan: the host numbers)
    bhandles,           \* its tasks' results ("pending" until done)
    bpc,                \* position of the batch call
    bret,               \* the value the batch call returned
    \* ---- avalon.rs: tcp_cmd
    script,             \* what the peer does: read outcomes in order
    peer_closes,        \* whether the peer closes after the script
    peer_streams,       \* whether the peer keeps sending after the script
    encoding,           \* what the bytes the peer sends are
    timeout_seconds,    \* the configured timeout
    is_waiting_write,   \* whether the command waits for a response
    tpc,                \* position of tcp_cmd
    pos,                \* number of script events consumed
    buf,                \* bytes accumulated (chunk ids, in arrival order;
                        \* 0 is what filled the rest of the buffer)
    total_bytes_read,
    count,              \* WouldBlock counter of the read loop
    clock,              \* elapsed time in units of 100 ms
    ended_by,           \* how the read loop ended
    tret,               \* tcp_cmd's return value
    \* ---- avalon.rs: switch_account_if_diff / switch_if_need
    av_in,              \* the call's inputs: account, is_force
    dev,                \* the Avalon device's state
    apc,                \* position of the switch
    cmds,               \* commands issued to the device, in order
    ping_reply,         \* what try_ping's send_ping got: "none" before it ran
    aret,               \* result of switch_account_if_diff
    \* ---- ant.rs: switch_account_if_diff / config_pool / reboot
    ant_in,             \* the call's inputs: op, account, is_force, pools
    adev,               \* the Ant device: the config (JSON) it holds
    antpc,              \* position of the call
    conf,               \* the call's local AntConfig
    reqs,               \* HTTP transfers the call performed, in order
    antret,             \* the call's result
    ant_calls,          \* calls started so far
    ant_prev,           \* the call before this one: its result, slot 1's user after it
    \* ---- entry.rs: find_miner
    headers,            \* response headers of the probe, each a string
    page,               \* response body of the probe (find_miner's `body`)
    dpc,                \* position of find_miner
    di,                 \* index into MINERS of the loop
    found,              \* find_miner's result
    \* ---- entry.rs: TimeConfig
    tc_in,              \* the sheet row: start, end (clock texts) and label
    time_config,        \* the TimeConfig built by from_str
    now_time,           \* the local time the membership test read
    tw_fn,              \* which test ran: now_account or now_perf
    twpc,               \* position of the schedule lookup
    tw_ret,             \* what from_str / the test returned
    \* ---- ant.rs / avalon.rs: the worker name written for a device
    sfx_ip,             \* the device's address, as text
    sfx_name,           \* the account name or pool user the caller gave
    sfx_user,           \* per operation: the user it wrote, <<>> before it ran
    \* ---- avalon.rs: AvalonMiner::query
    qdev,               \* the device queried: model, work mode, power
    qpc,                \* position of query
    qcmds,              \* commands query issued and how each ended, in order
    qret                \* query's result

orchVars  == <<machine_map, ERR_MAP, lock, pc, idx, handles, process_machines,
               error_ips, ei, selected_ips, spawned, finished, ended>>
schedVars == <<account_type, perf_mode, sheets, spc, srow, reads, sret>>
histVars  == <<cycles, streak, allFailed, lastAlert, counts_before, tally>>
batchVars == <<bop, bargs, bips, bhandles, bpc, bret>>
tcpVars   == <<script, peer_closes, peer_streams, encoding, timeout_seconds, is_waiting_write, tpc, pos, buf,
               total_bytes_read, count, clock, ended_by, tret>>
avVars    == <<av_in, dev, apc, cmds, ping_reply, aret>>
antVars   == <<ant_in, adev, antpc, conf, reqs, antret, ant_calls, ant_prev>>
detVars   == <<headers, page, dpc, di, found>>
twVars    == <<tc_in, time_config, now_time, tw_fn, twpc, tw_ret>>
sfxVars   == <<sfx_ip, sfx_name, sfx_user>>
avqVars   == <<qdev, qpc, qcmds, qret>>
vars      == <<schedVars, orchVars, histVars, batchVars, tcpVars, avVars, antVars, detVars, twVars, sfxVars, avqVars>>
notSched  == <<orchVars, histVars, batchVars, tcpVars, avVars, antVars, detVars, twVars, sfxVars, avqVars>>
notOrch   == <<schedVars, batchVars, tcpVars, avVars, antVars, detVars, twVars, sfxVars, avqVars>>
notBatch  == <<schedVars, orchVars, histVars, tcpVars, avVars, antVars, detVars, twVars, sfxVars, avqVars>>
notTcp    == <<schedVars, orchVars, histVars, batchVars, avVars, antVars, detVars, twVars, sfxVars, avqVars>>
notAv     == <<schedVars, orchVars, histVars, batchVars, tcpVars, antVars, detVars, twVars, sfxVars, avqVars>>
notAnt    == <<schedVars, orchVars, histVars, batchVars, tcpVars, avVars, detVars, twVars, sfxVars, avqVars>>
notDet    == <<schedVars, orchVars, histVars, batchVars, tcpVars, avVars, antVars, twVars, sfxVars, avqVars>>
notTw     == <<schedVars, orchVars, histVars, batchVars, tcpVars, avVars, antVars, detVars, sfxVars, avqVars>>
notSfx    == <<schedVars, orchVars, histVars, batchVars, tcpVars, avVars, antVars, detVars, twVars, avqVars>>
notAvq    == <<schedVars, orchVars, histVars, batchVars, tcpVars, avVars, antVars, detVars, twVars, sfxVars>>

-----------------------------------------------------------------------------
(* Bounds *)
MaxCycles == 6          \* switch_if_need cycles explored

(* Program constants *)
THRESHOLD == 3          \* entry.rs:607  if *count >= 3

Min(a, b) == IF a < b THEN a ELSE b

-----------------------------------------------------------------------------
(***************************************************************************)
(* entry.rs: switch_if_need                                                *)
(***************************************************************************)
Procs == {1, 2}         \* callers that may run switch_if_need

\* BTreeMap<String, Vec<Machine>> iterates its keys in string order.
VendorOrder == <<"ant", "avalon", "bluestar">>

\* A row of the inventory.  switch_account is "Some" or "None"; the two
\* accounts are known by their run_mode columns.
Machine(ip, name, status, sw, info) ==
    [ip |-> ip, name |-> name, status |-> status, switch_account |-> sw,
     addition_info |-> info, account_run_mode |-> "NORMAL", switch_run_mode |-> "HIGH"]

WithRunModes(m, main_mode, switch_mode) ==
    [m EXCEPT !.account_run_mode = main_mode, !.switch_run_mode = switch_mode]

\* Inventories the sheet may hold (rows in sheet order).
Inventories ==
    { << Machine(1, "ant", "Online", "Some", "r1"),
         Machine(2, "avalon", "Online", "Some", "r2") >>,
      << Machine(2, "avalon", "Online", "Some", "r2"),
         Machine(3, "ant", "Offline", "Some", "r3"),
         Machine(1, "ant", "Online", "Some", "r1"),
         Machine(4, "avalon", "Online", "None", "r4") >>,
      << Machine(5, "bluestar", "Online", "Some", "r5"),
         Machine(1, "ant", "Online", "Some", "r1"),
         Machine(2, "avalon", "Online", "Some", "r2") >>,
      << Machine(5, "bluestar", "Online", "None", "r5"),
         Machine(2, "avalon", "Online", "Some", "r2") >> }

Ips == {1, 2, 3, 4, 5}

RECURSIVE SelectVendor(_, _)
SelectVendor(rows, v) ==
    IF rows = <<>> THEN <<>>
    ELSE (IF Head(rows).name = v THEN <<Head(rows)>> ELSE <<>>)
         \o SelectVendor(Tail(rows), v)

\* The order in which the nested loops of switch_if_need visit the machines:
\* by vendor key, then in row order.
IterationOrder(rows) ==
    SelectVendor(rows, VendorOrder[1]) \o SelectVendor(rows, VendorOrder[2])
        \o SelectVendor(rows, VendorOrder[3])

Eligible(m) == m.switch_account # "None" /\ m.status = "Online"

\* if account_type == "main" { machine.account } else { machine.switch_account }
TargetAccount(m, active) ==
    IF active = "main"
    THEN [of |-> "account", run_mode |-> m.account_run_mode]
    ELSE [of |-> "switch_account", run_mode |-> m.switch_run_mode]

\* A faulty variant of TargetRunMode: the performance window is not read.
TargetRunMode_AccountOnly(run_mode, perf) ==
    IF run_mode = "HIGH" THEN "HIGH" ELSE "NORMAL"

\* if switch_account.run_mode == HIGH && perf_mode == HIGH { HIGH } else { NORMAL }
TargetRunMode(run_mode, perf) ==
    IF run_mode = "HIGH" /\ perf = "HIGH" THEN "HIGH" ELSE "NORMAL"

\* The task spawned for a machine: switch_account_if_diff(ip, switch_account, false)
SwitchTask(m, active, perf) ==
    [ip |-> m.ip, account |-> TargetAccount(m, active).of,
     run_mode |-> TargetRunMode(TargetAccount(m, active).run_mode, perf),
     is_force |-> FALSE]

\* format!("[{}-{}]", ip, addition_info) and format!("[{}-{}] ", ...)
KeyOpError(m)   == <<"[", m.ip, "-", m.addition_info, "]">>
KeyJoinError(m) == <<"[", m.ip, "-", m.addition_info, "]", " ">>
KeyIp(k) == k[2]

\* The loop over process_machines pairing each with result_iter.next().
RECURSIVE CollectErrors(_, _)
CollectErrors(pm, result) ==
    IF pm = <<>> THEN <<>>
    ELSE LET m == Head(pm) IN
         IF result = <<>>
         THEN <<KeyJoinError(m)>> \o CollectErrors(Tail(pm), <<>>)
         ELSE (CASE Head(result) = "ok"    -> <<>>
                 [] Head(result) = "err"   -> <<KeyOpError(m)>>
                 [] OTHER                  -> <<KeyJoinError(m)>>)
              \o CollectErrors(Tail(pm), Tail(result))

\* let count = err_map.entry(ip).or_insert(0); *count += 1;
Incremented(map, k) ==
    IF k \in DOMAIN map THEN map[k] + 1 ELSE 1

\* A faulty variant of ReachedThreshold: the test the comment in the code
\* describes ("count when matched count > 3").
ReachedThreshold_Over(n) == n > THRESHOLD

\* if *count >= 3 { *count = 0; selected_ips.push(ip) }
ReachedThreshold(n) == n >= THRESHOLD

\* A faulty variant of AfterCount: the entry is not reset at the threshold.
AfterCount_NoReset(map, k) ==
    [x \in DOMAIN map \cup {k} |-> IF x = k THEN Incremented(map, k) ELSE map[x]]

AfterCount(map, k) ==
    LET n == Incremented(map, k) IN
    [x \in DOMAIN map \cup {k} |->
        IF x = k THEN (IF ReachedThreshold(n) THEN 0 ELSE n) ELSE map[x]]

SeqToSet(s) == {s[i] : i \in 1..Len(s)}

FailedIps(c) ==
    {process_machines[c][i].ip : i \in {j \in 1..Len(process_machines[c]) :
                                          j > Len(handles[c]) \/ handles[c][j] # "ok"}}

\* The tally of a run in which calls overlap (observation only); it is kept
\* only when switched on, and stays as it is otherwise.
NoTally == [on |-> FALSE, initial |-> [d \in Ips |-> 0],
            failures |-> [d \in Ips |-> 0], alerts |-> [d \in Ips |-> 0],
            overlapped |-> FALSE, reporters |-> {}]

\* A call starts: beside running calls it overlaps them, alone it opens a
\* new group of calls.
CallStarted(t, others_running) ==
    IF ~t.on THEN t
    ELSE IF others_running THEN [t EXCEPT !.overlapped = TRUE]
    ELSE [t EXCEPT !.overlapped = FALSE, !.reporters = {}]

\* A failure of key k went through the counting loop of call c.
FailureCounted(t, k, c) ==
    IF t.on THEN [t EXCEPT !.failures[KeyIp(k)] = @ + 1, !.reporters = @ \cup {c}] ELSE t

\* The notification naming the selected keys is sent.
AlertSent(t, selected) ==
    IF t.on
    THEN [t EXCEPT !.alerts = [d \in Ips |->
              @[d] + Cardinality({i \in 1..Len(selected) : KeyIp(selected[i]) = d})]]
    ELSE t

\* Bookkeeping at the return of a cycle (observation only).
Completed(c, alerted) ==
    /\ cycles' = cycles + 1
    /\ streak' = [d \in Ips |-> IF d \in FailedIps(c)
                                THEN Min(streak[d] + 1, THRESHOLD) ELSE 0]
    /\ allFailed' = [d \in Ips |-> allFailed[d] /\ d \in FailedIps(c)]
    /\ lastAlert' = alerted
    /\ counts_before' = <<>>
    /\ tally' = tally

ResetLocals(c) ==
    /\ idx' = [idx EXCEPT ![c] = 0]
    /\ handles' = [handles EXCEPT ![c] = <<>>]
    /\ process_machines' = [process_machines EXCEPT ![c] = <<>>]
    /\ error_ips' = [error_ips EXCEPT ![c] = <<>>]
    /\ ei' = [ei EXCEPT ![c] = 0]
    /\ selected_ips' = [selected_ips EXCEPT ![c] = <<>>]
    /\ spawned' = [spawned EXCEPT ![c] = <<>>]
    /\ finished' = [finished EXCEPT ![c] = <<>>]

\* info!("end switch action"); Ok(())
ReturnsOk(c) == ended' = [ended EXCEPT ![c] = <<"Ok">>]

\* switch_if_need is called; the schedule resolved and the inventory is loaded.
StartCycle(c) ==
    /\ pc[c] = "idle"
    /\ spc \in {"preset", "resolved"}
    /\ cycles < MaxCycles
    /\ pc' = [pc EXCEPT ![c] = "dispatch"]
    /\ idx' = [idx EXCEPT ![c] = 1]
    /\ ended' = [ended EXCEPT ![c] = <<"None">>]
    /\ tally' = CallStarted(tally, \E o \in Procs \ {c} : pc[o] # "idle")
    /\ UNCHANGED <<machine_map, ERR_MAP, lock, handles, process_machines,
                   error_ips, ei, selected_ips, spawned, finished,
                   cycles, streak, allFailed, lastAlert, counts_before, notOrch>>

\* One iteration of the dispatch loop.  The future is built by calling
\* switch_account_if_diff in the caller, before the spawn: bluestar's is
\* todo!() and panics in switch_if_need itself.
Dispatch(c) ==
    /\ pc[c] = "dispatch"
    /\ LET order == IterationOrder(machine_map) IN
       IF idx[c] > Len(order)
       THEN /\ pc' = [pc EXCEPT ![c] = "join"]
            /\ UNCHANGED <<idx, handles, process_machines, spawned, finished, ended>>
       ELSE LET m == order[idx[c]] IN
            IF ~Eligible(m)
            THEN /\ idx' = [idx EXCEPT ![c] = @ + 1]
                 /\ UNCHANGED <<pc, handles, process_machines, spawned, finished, ended>>
            ELSE IF m.name = "bluestar"
            THEN /\ pc' = [pc EXCEPT ![c] = "panicked"]
                 /\ ended' = [ended EXCEPT ![c] = <<"Panic">>]
                 /\ UNCHANGED <<idx, handles, process_machines, spawned, finished>>
            ELSE /\ idx' = [idx EXCEPT ![c] = @ + 1]
                 /\ handles' = [handles EXCEPT ![c] = Append(@, "pending")]
                 /\ spawned' = [spawned EXCEPT ![c] =
                                    Append(@, SwitchTask(m, account_type, perf_mode))]
                 /\ process_machines' = [process_machines EXCEPT ![c] = Append(@, m)]
                 /\ UNCHANGED <<pc, finished, ended>>
    /\ UNCHANGED <<machine_map, ERR_MAP, lock, error_ips, ei, selected_ips, histVars, notOrch>>

TaskOutcomes == {"ok", "err", "crash"}

\* A spawned task finishes: Ok(Ok(())), Ok(Err(e)) or Err(JoinError).
TaskFinish(c) ==
    \E i \in 1..Len(handles[c]), o \in TaskOutcomes :
        /\ handles[c][i] = "pending"
        /\ handles' = [handles EXCEPT ![c][i] = o]
        /\ finished' = [finished EXCEPT ![c] = Append(@, i)]
        /\ UNCHANGED <<machine_map, ERR_MAP, lock, pc, idx, process_machines,
                       error_ips, ei, selected_ips, spawned, ended, histVars, notOrch>>

\* A faulty variant of join_all: the outputs in the order the tasks finished.
join_all_ByCompletion(hs, order) == [i \in 1..Len(hs) |-> hs[order[i]]]

\* futures::future::join_all(handles).await: the outputs of the handles, in
\* the order of the handles, whatever the order the tasks finished in.
join_all(hs, order) == [i \in 1..Len(hs) |-> hs[i]]

\* join_all returns once every task has finished; the results are paired
\* with process_machines and the failure list is built.
Join(c) ==
    /\ pc[c] = "join"
    /\ \A i \in 1..Len(handles[c]) : handles[c][i] # "pending"
    /\ error_ips' = [error_ips EXCEPT ![c] = CollectErrors(process_machines[c], join_all(handles[c], finished[c]))]
    /\ pc' = [pc EXCEPT ![c] = "collected"]
    /\ UNCHANGED <<machine_map, ERR_MAP, lock, idx, handles, process_machines,
                   ei, selected_ips, spawned, finished, ended, histVars, notOrch>>

\* error_ips is empty: the call returns Ok(()).
ReturnNoErrors(c) ==
    /\ pc[c] = "collected"
    /\ Len(error_ips[c]) = 0
    /\ Completed(c, {})
    /\ pc' = [pc EXCEPT ![c] = "idle"]
    /\ ResetLocals(c)
    /\ ReturnsOk(c)
    /\ UNCHANGED <<machine_map, ERR_MAP, lock, notOrch>>

\* let mut err_map = ERR_MAP.lock().unwrap();
Lock(c) ==
    /\ pc[c] = "collected"
    /\ Len(error_ips[c]) > 0
    /\ lock = 0
    /\ lock' = c
    /\ pc' = [pc EXCEPT ![c] = "count"]
    /\ ei' = [ei EXCEPT ![c] = 1]
    /\ counts_before' = ERR_MAP
    /\ tally' = tally
    /\ UNCHANGED <<machine_map, ERR_MAP, idx, handles, process_machines,
                   error_ips, selected_ips, spawned, finished, ended,
                   cycles, streak, allFailed, lastAlert, notOrch>>

\* One iteration of the counting loop: increment, check, reset.
CountOne(c) ==
    /\ pc[c] = "count"
    /\ ei[c] <= Len(error_ips[c])
    /\ LET k == error_ips[c][ei[c]] IN
       /\ ERR_MAP' = AfterCount(ERR_MAP, k)
       /\ selected_ips' = [selected_ips EXCEPT ![c] =
              IF ReachedThreshold(Incremented(ERR_MAP, k)) THEN Append(@, k) ELSE @]
    /\ ei' = [ei EXCEPT ![c] = @ + 1]
    /\ tally' = FailureCounted(tally, error_ips[c][ei[c]], c)
    /\ UNCHANGED <<machine_map, lock, pc, idx, handles, process_machines,
                   error_ips, spawned, finished, ended,
                   cycles, streak, allFailed, lastAlert, counts_before, notOrch>>

\* The loop is over and nothing was selected: the guard is dropped at the
\* end of the block and the call returns.
ReturnNoAlert(c) ==
    /\ pc[c] = "count"
    /\ ei[c] > Len(error_ips[c])
    /\ Len(selected_ips[c]) = 0
    /\ lock' = 0
    /\ Completed(c, {})
    /\ pc' = [pc EXCEPT ![c] = "idle"]
    /\ ResetLocals(c)
    /\ ReturnsOk(c)
    /\ UNCHANGED <<machine_map, ERR_MAP, notOrch>>

\* Which mutex state the call is in while feishu::notify(&msg).await runs:
\* err_map (the MutexGuard) is declared in the enclosing block and lives to
\* its end, past the await.
LockDuringNotify(c) == c

\* feishu::notify(&msg).await starts: the HTTP request is sent.
NotifyStart(c) ==
    /\ pc[c] = "count"
    /\ ei[c] > Len(error_ips[c])
    /\ Len(selected_ips[c]) > 0
    /\ pc' = [pc EXCEPT ![c] = "notify"]
    /\ lock' = LockDuringNotify(c)
    /\ tally' = AlertSent(tally, selected_ips[c])
    /\ UNCHANGED <<machine_map, ERR_MAP, idx, handles, process_machines,
                   error_ips, ei, selected_ips, spawned, finished, ended,
                   cycles, streak, allFailed, lastAlert, counts_before, notOrch>>

\* notify returns (its own result is ignored); the block ends, the guard is
\* dropped and the call returns Ok(()).
NotifyDone(c) ==
    /\ pc[c] = "notify"
    /\ lock' = IF lock = c THEN 0 ELSE lock
    /\ Completed(c, {KeyIp(k) : k \in SeqToSet(selected_ips[c])})
    /\ pc' = [pc EXCEPT ![c] = "idle"]
    /\ ResetLocals(c)
    /\ ReturnsOk(c)
    /\ UNCHANGED <<machine_map, ERR_MAP, notOrch>>

Cycle(c) ==
    \/ StartCycle(c)
    \/ Dispatch(c)
    \/ TaskFinish(c)
    \/ Join(c)
    \/ ReturnNoErrors(c)
    \/ Lock(c)
    \/ CountOne(c)
    \/ ReturnNoAlert(c)
    \/ NotifyStart(c)
    \/ NotifyDone(c)

\* No switch_if_need call is running.
CallsIdle ==
    /\ lock = 0
    /\ pc = [c \in Procs |-> "idle"]
    /\ idx = [c \in Procs |-> 0]
    /\ handles = [c \in Procs |-> <<>>]
    /\ process_machines = [c \in Procs |-> <<>>]
    /\ error_ips = [c \in Procs |-> <<>>]
    /\ ei = [c \in Procs |-> 0]
    /\ selected_ips = [c \in Procs |-> <<>>]
    /\ spawned = [c \in Procs |-> <<>>]
    /\ finished = [c \in Procs |-> <<>>]
    /\ ended = [c \in Procs |-> <<"None">>]
    /\ counts_before = <<>>
    /\ cycles = 0
    /\ streak = [d \in Ips |-> 0]
    /\ allFailed = [d \in Ips |-> TRUE]
    /\ lastAlert = {}

OrchIdle ==
    /\ ERR_MAP = <<>>
    /\ tally = NoTally
    /\ CallsIdle

\* No schedule is read outside switch_if_need.
NoSheets == [account |-> <<>>, perf |-> <<>>]

\* No schedule lookup is running.
LookupIdle ==
    /\ sheets = NoSheets
    /\ srow = 0
    /\ reads = <<>>
    /\ sret = <<"None">>

SchedIdle ==
    /\ account_type = "none"
    /\ perf_mode = "none"
    /\ spc = "none"
    /\ LookupIdle

\* The schedule resolved to the profile `active` and the mode `perf`.
SchedPreset(active, perf) ==
    /\ account_type = active
    /\ perf_mode = perf
    /\ spc = "preset"
    /\ LookupIdle

NoArgs == [ip_demo |-> <<>>, ip_prefix |-> <<>>, offset |-> 0, count |-> 0]

BatchIdle ==
    /\ bop = "none"
    /\ bargs = NoArgs
    /\ bips = <<>>
    /\ bhandles = <<>>
    /\ bpc = "idle"
    /\ bret = "none"

TcpIdle ==
    /\ script = <<>>
    /\ peer_closes = FALSE
    /\ peer_streams = FALSE
    /\ encoding = "ascii"
    /\ timeout_seconds = 0
    /\ is_waiting_write = FALSE
    /\ tpc = "idle"
    /\ pos = 0
    /\ buf = <<>>
    /\ total_bytes_read = 0
    /\ count = 0
    /\ clock = 0
    /\ ended_by = "none"
    /\ tret = "none"

AvIdle ==
    /\ av_in = "none"
    /\ dev = "none"
    /\ apc = "idle"
    /\ cmds = <<>>
    /\ ping_reply = "none"
    /\ aret = "none"

AntIdle ==
    /\ ant_in = "none"
    /\ adev = "none"
    /\ antpc = "idle"
    /\ conf = "none"
    /\ reqs = <<>>
    /\ antret = "none"
    /\ ant_calls = 0
    /\ ant_prev = "none"

-----------------------------------------------------------------------------
(***************************************************************************)
(* entry.rs: scan, watching, reboot_batch, config_batch                    *)
(***************************************************************************)
MaxIps == 5             \* largest batch explored

BatchOps == {"scan", "watching", "reboot_batch", "config_batch"}

\* What a spawned task ends with: Ok(Ok(v)); Ok(Err(e)) with e find_miner's
\* error (no vendor detected), a protocol error of the operation or a curl
\* timeout; Err(JoinError) when the task panicked.
BatchOutcomes == {"ok", "detect_err", "proto_err", "timeout", "crash"}

\* ip_demo.split('.').take(3).collect::<Vec<&str>>().join("."): the text
\* before the n-th '.', all of it when it has fewer.
RECURSIVE TextBeforeDot(_, _)
TextBeforeDot(s, n) ==
    IF s = <<>> THEN <<>>
    ELSE IF Head(s) = "."
         THEN (IF n = 1 THEN <<>> ELSE <<".">> \o TextBeforeDot(Tail(s), n - 1))
         ELSE <<Head(s)>> \o TextBeforeDot(Tail(s), n)

ip_prefix(ip_demo) == TextBeforeDot(ip_demo, 3)

\* A faulty variant of ScanIps: the range holds its upper end.
ScanIps_Inclusive(offset, cnt) ==
    IF cnt < 0 THEN <<>> ELSE [i \in 1..(cnt + 1) |-> offset + i - 1]

\* scan: for i in offset..(offset + count) { ip = format!("{}.{}", ip_prefix, i) }
ScanIps(offset, cnt) ==
    IF cnt <= 0 THEN <<>> ELSE [i \in 1..cnt |-> offset + i - 1]

\* The arguments scan is called with.
ScanBases == { <<"192", ".", "168", ".", "189", ".", "1">>,
               <<"10", ".", "8", ".", "0", ".", "255">> }
ScanOffsets == {0, 1, 254}

\* Each operation's loop over the joined results, and what it returns.
RECURSIVE Machines(_, _)
Machines(ips, result) ==
    IF ips = <<>> \/ result = <<>> THEN <<>>
    ELSE (IF Head(result) = "ok" THEN <<Head(ips)>> ELSE <<>>)
         \o Machines(Tail(ips), Tail(result))

\* A faulty variant of CountOk: every task that returned is counted.
RECURSIVE CountOk_Returned(_)
CountOk_Returned(result) ==
    IF result = <<>> THEN 0
    ELSE (IF Head(result) # "crash" THEN 1 ELSE 0) + CountOk_Returned(Tail(result))

\* config_batch: count += 1 for every Ok(Ok(())).
RECURSIVE CountOk(_)
CountOk(result) ==
    IF result = <<>> THEN 0
    ELSE (IF Head(result) = "ok" THEN 1 ELSE 0) + CountOk(Tail(result))

ScanReturn(ips, result)        == <<"Ok", Machines(ips, result)>>
WatchingReturn(ips, result)    == <<"Ok", Machines(ips, result)>>
\* let _result = join_all(handles).await; Ok(())
RebootBatchReturn(ips, result) == <<"Ok", "unit">>
ConfigBatchReturn(ips, result) == <<"Ok", CountOk(result)>>

BatchReturn(op, ips, result) ==
    CASE op = "scan"         -> ScanReturn(ips, result)
      [] op = "watching"     -> WatchingReturn(ips, result)
      [] op = "reboot_batch" -> RebootBatchReturn(ips, result)
      [] OTHER               -> ConfigBatchReturn(ips, result)

\* The operation is called and its loop spawns one task per target.
BatchCall ==
    /\ bpc = "idle"
    /\ \E op \in BatchOps :
         /\ bop' = op
         /\ IF op = "scan"
            THEN \E ip_demo \in ScanBases, offset \in ScanOffsets, cnt \in -1..MaxIps :
                     /\ bargs' = [ip_demo |-> ip_demo, ip_prefix |-> ip_prefix(ip_demo),
                                  offset |-> offset, count |-> cnt]
                     /\ bips' = ScanIps(offset, cnt)
            ELSE \E n \in 0..MaxIps : bips' = [i \in 1..n |-> i] /\ bargs' = bargs
    /\ bhandles' = [i \in 1..Len(bips') |-> "pending"]
    /\ bpc' = "joining"
    /\ UNCHANGED <<bret, notBatch>>

\* A spawned task finishes, in any order.
BatchTaskFinish ==
    /\ bpc = "joining"
    /\ \E i \in 1..Len(bhandles), o \in BatchOutcomes :
         /\ bhandles[i] = "pending"
         /\ bhandles' = [bhandles EXCEPT ![i] = o]
    /\ UNCHANGED <<bop, bargs, bips, bpc, bret, notBatch>>

\* join_all returns once every task has finished; the call returns.
BatchJoin ==
    /\ bpc = "joining"
    /\ \A i \in 1..Len(bhandles) : bhandles[i] # "pending"
    /\ bret' = BatchReturn(bop, bips, bhandles)
    /\ bpc' = "returned"
    /\ UNCHANGED <<bop, bargs, bips, bhandles, notBatch>>

-----------------------------------------------------------------------------
(***************************************************************************)
(* avalon.rs: tcp_cmd                                                      *)
(***************************************************************************)
MaxEvents == 7          \* longest peer script explored

BUF_SIZE == 32768       \* avalon.rs:613  vec![0; 32768]
WOULD_BLOCK_LIMIT == 3  \* avalon.rs:628  if count >= 3
SLEEP_TICKS == 1        \* avalon.rs:632  sleep(Duration::from_millis(100))
TICKS_PER_SECOND == 10  \* avalon.rs:604  Duration::from_secs(timeout_seconds)

\* What the peer does after the command was written: "data" is a chunk of
\* one byte (its content is its position in the script), "wb" is a read that
\* finds no data before the read timeout and fails with WouldBlock.
RECURSIVE Scripts(_)
Scripts(n) ==
    IF n = 0 THEN {<<>>}
    ELSE LET shorter == Scripts(n - 1) IN
         shorter \cup {Append(sc, e) : sc \in {x \in shorter : Len(x) = n - 1},
                                       e \in {"data", "wb"}}

\* The outcome of stream.read: the next script event; after the script, a
\* peer that keeps sending fills the space the read offers ("fill"), a
\* closed peer gives Ok(0) and a silent one WouldBlock.  With no room left
\* in buf the slice is empty and read returns Ok(0).
ReadOutcome ==
    IF total_bytes_read >= BUF_SIZE THEN "eof"
    ELSE IF pos < Len(script) THEN script[pos + 1]
    ELSE IF peer_streams THEN "fill"
    ELSE IF peer_closes THEN "eof" ELSE "wb"

\* What the peer's bytes are: one-byte characters, three-byte characters, or
\* bytes that are no UTF-8 text.
Encodings == {"ascii", "cjk", "invalid"}

\* Whether the first n bytes of the peer's stream are well-formed UTF-8: a
\* stream of three-byte characters is, when n ends on a character.
Decodes(enc, n) ==
    CASE enc = "ascii" -> TRUE
      [] enc = "cjk" -> n % 3 = 0
      [] OTHER -> FALSE

\* String::from_utf8(buf[..total_bytes_read].to_vec())?
from_utf8_Lossy(enc, n, bytes) == <<"Ok", bytes>>
from_utf8(enc, n, bytes) ==
    IF Decodes(enc, n) THEN <<"Ok", bytes>> ELSE <<"Err", "FromUtf8Error">>

\* count += 1 on WouldBlock; data leaves count as it is.
CountAfterWouldBlock_Twice(n) == n + 2
CountAfterWouldBlock(n) == n + 1
CountAfterData(n) == n

\* After the loop: the bytes read as a String when something was read, else
\* TcpReadError.
ReadLoopResult_NoError(total, bytes) == from_utf8(encoding, total, bytes)
ReadLoopResult(total, bytes) ==
    IF total > 0 THEN from_utf8(encoding, total, bytes)
    ELSE <<"Err", "TcpReadError">>

\* tcp_write_reboot: tcp_cmd(ip, 4028, "ascset|0,reboot,0", false, t)?; Ok(())
tcp_write_reboot(r) == IF r[1] = "Err" THEN r ELSE <<"Ok", "unit">>

\* to_socket_addrs, connect_timeout, set_*_timeout.
TcpConnect ==
    /\ tpc = "connect"
    /\ \/ /\ tpc' = "write"
          /\ UNCHANGED <<tret, ended_by>>
       \/ /\ tpc' = "done"
          /\ tret' = <<"Err", "StdIoError">>
          /\ ended_by' = "connect_error"
    /\ UNCHANGED <<script, peer_closes, peer_streams, encoding, timeout_seconds,
                   is_waiting_write, pos,
                   buf, total_bytes_read, count, clock, notTcp>>

\* stream.write_all(cmd); a command that does not wait returns Ok("").
TcpWrite ==
    /\ tpc = "write"
    /\ \/ /\ is_waiting_write
          /\ tpc' = "read"
          /\ UNCHANGED <<tret, ended_by>>
       \/ /\ ~is_waiting_write
          /\ tpc' = "done"
          /\ tret' = <<"Ok", <<>>>>
          /\ ended_by' = "no_wait"
       \/ /\ tpc' = "done"
          /\ tret' = <<"Err", "StdIoError">>
          /\ ended_by' = "write_error"
    /\ UNCHANGED <<script, peer_closes, peer_streams, encoding, timeout_seconds,
                   is_waiting_write, pos,
                   buf, total_bytes_read, count, clock, notTcp>>

\* One iteration of the read loop, with the return that follows a break.
TcpRead ==
    /\ tpc = "read"
    /\ \/ /\ ReadOutcome = "data"
          /\ buf' = Append(buf, pos + 1)
          /\ total_bytes_read' = total_bytes_read + 1
          /\ count' = CountAfterData(count)
          /\ pos' = pos + 1
          /\ UNCHANGED <<tpc, tret, ended_by, clock>>
       \/ \* the read takes what the slice buf[total_bytes_read..] holds
          /\ ReadOutcome = "fill"
          /\ buf' = Append(buf, 0)
          /\ total_bytes_read' = BUF_SIZE
          /\ count' = CountAfterData(count)
          /\ UNCHANGED <<tpc, tret, ended_by, clock, pos>>
       \/ /\ ReadOutcome = "eof"
          /\ tpc' = "done"
          /\ ended_by' = "eof"
          /\ tret' = ReadLoopResult(total_bytes_read, buf)
          /\ UNCHANGED <<buf, total_bytes_read, count, pos, clock>>
       \/ /\ ReadOutcome = "wb"
          /\ count' = CountAfterWouldBlock(count)
          /\ pos' = Min(pos + 1, Len(script))
          /\ IF count' >= WOULD_BLOCK_LIMIT
             THEN /\ tpc' = "done"
                  /\ ended_by' = "would_block"
                  /\ tret' = ReadLoopResult(total_bytes_read, buf)
                  /\ clock' = clock + timeout_seconds * TICKS_PER_SECOND
             ELSE /\ clock' = clock + timeout_seconds * TICKS_PER_SECOND + SLEEP_TICKS
                  /\ UNCHANGED <<tpc, tret, ended_by>>
          /\ UNCHANGED <<buf, total_bytes_read>>
       \/ \* any other read error: return Err(e.into())
          /\ tpc' = "done"
          /\ ended_by' = "read_error"
          /\ tret' = <<"Err", "StdIoError">>
          /\ UNCHANGED <<buf, total_bytes_read, count, pos, clock>>
    /\ UNCHANGED <<script, peer_closes, peer_streams, encoding, timeout_seconds,
                   is_waiting_write, notTcp>>

-----------------------------------------------------------------------------
(***************************************************************************)
(* avalon.rs: switch_account_if_diff and switch_if_need                    *)
(***************************************************************************)
MaxStr == 2             \* longest account name / device user explored

\* Strings are sequences of characters; "." is the separator split('.') sees.
StrChars == {"a", "b", "."}

RECURSIVE Strings(_)
Strings(n) ==
    IF n = 0 THEN {<<>>}
    ELSE LET shorter == Strings(n - 1) IN
         shorter \cup {Append(x, ch) : x \in {y \in shorter : Len(y) = n - 1},
                                       ch \in StrChars}

\* The run modes an account row may carry: "HIGH" stands for the sheet's
\* high-power label, "NORMAL" for the other one.
RunModes == {"HIGH", "NORMAL"}

\* The device the call talks to (the tests' 192.168.189.162).
AvIp == <<"192", ".", "168", ".", "189", ".", "162">>

\* str::split(sep).collect(): the pieces between the separators.
RECURSIVE split(_, _)
split(s, sep) ==
    IF s = <<>> THEN << <<>> >>
    ELSE LET rest == split(Tail(s), sep) IN
         IF Head(s) = sep THEN << <<>> >> \o rest
         ELSE << <<Head(s)>> \o rest[1] >> \o Tail(rest)

\* s.split('.').next().unwrap(): the text before the first '.'.
RECURSIVE FirstSegment(_)
FirstSegment(s) ==
    IF s = <<>> \/ Head(s) = "." THEN <<>>
    ELSE <<Head(s)>> \o FirstSegment(Tail(s))

\* AvalonWorkStatus::is_same_work_mode
is_same_work_mode(work_mode, run_mode) ==
    work_mode = (IF run_mode = "HIGH" THEN 1 ELSE 0)

\* A faulty variant of NoChangeNeeded: the work mode is not compared.
NoChangeNeeded_AccountOnly(is_force, account_result, work_mode, account) ==
    /\ ~is_force
    /\ FirstSegment(account_result) = FirstSegment(account.name)

\* if !is_force && worker == config_worker && work.is_same_work_mode(account)
NoChangeNeeded(is_force, account_result, work_mode, account) ==
    /\ ~is_force
    /\ FirstSegment(account_result) = FirstSegment(account.name)
    /\ is_same_work_mode(work_mode, account.run_mode)

\* account.name + "." + ip_splited[2] + "x" + ip_splited[3]
AvUser(account, ip) ==
    LET ip_splited == split(ip, ".") IN
    account.name \o <<".">> \o ip_splited[3] \o <<"x">> \o ip_splited[4]

\* A faulty variant of update_pools: the prefix put before the url is empty.
update_pools_NoPrefix(pools, ip) ==
    LET ip_splited == split(ip, ".") IN
    [i \in 1..Len(pools) |->
        [url      |-> <<"", pools[i].url>>,
         user     |-> pools[i].user \o <<".">> \o ip_splited[3] \o <<"x">> \o ip_splited[4],
         password |-> pools[i].password]]

\* AvalonMiner::config_pool: the pools as they are sent, the url behind the
\* prefix and the user before the tag of the ip.
update_pools(pools, ip) ==
    LET ip_splited == split(ip, ".") IN
    [i \in 1..Len(pools) |->
        [url      |-> <<"stratum+tcp://", pools[i].url>>,
         user     |-> pools[i].user \o <<".">> \o ip_splited[3] \o <<"x">> \o ip_splited[4],
         password |-> pools[i].password]]

\* tcp_write_pool, tcp_write_workmode, tcp_write_reboot: the commands of a
\* switch in the order the code sends them.
WriteSequence(account, ip) ==
    << <<"setpool", 0, account.pool1, AvUser(account, ip), account.password>>,
       <<"setpool", 1, account.pool2, AvUser(account, ip), account.password>>,
       <<"setpool", 2, account.pool3, AvUser(account, ip), account.password>>,
       <<"workmode", IF account.run_mode = "HIGH" THEN 1 ELSE 0>>,
       <<"reboot", 0>> >>

\* A faulty variant of ContinuesAfter: a failed command does not stop the sequence.
ContinuesAfter_Always(result) == TRUE

\* Whether the sequence goes on after a command's result (the ? operator).
ContinuesAfter(result) == result = "ok"

\* What a command that reached the device does to it.
Applied(d, cmd) ==
    CASE cmd[1] = "setpool" ->
             [d EXCEPT !.pools[cmd[2] + 1] = [url |-> cmd[3], user |-> cmd[4], pass |-> cmd[5]]]
      [] cmd[1] = "workmode" -> [d EXCEPT !.work_mode = cmd[2]]
      [] cmd[1] = "reboot"   -> [d EXCEPT !.reboots = @ + 1]
      [] OTHER               -> d

\* How one tcp_cmd can end: "ok"; "not_sent" when connect or write failed;
\* "no_reply" when the command was written but reading the response failed.
\* reboot does not wait for a response.
CmdResults(cmd) ==
    IF cmd[1] = "reboot" THEN {"ok", "not_sent"} ELSE {"ok", "not_sent", "no_reply"}

Logged(cmd, result, reply) == [cmd |-> cmd, result |-> result, reply |-> reply]

\* tcp_query_account: "pools", then the first User=... of the response.
AvQueryAccount ==
    /\ apc = "query_account"
    /\ \E r \in {"ok", "not_sent", "no_reply", "no_match"} :
         /\ cmds' = Append(cmds, Logged(<<"pools">>, r,
                                 IF r = "ok" THEN dev.pools[1].user ELSE <<>>))
         /\ apc' = IF r = "ok" THEN "query_status" ELSE "ping"
    /\ UNCHANGED <<av_in, dev, ping_reply, aret, notAv>>

\* tcp_query_status: "estats", then WORKMODE[n] of the response; on success
\* the no-change test decides between returning and writing.
AvQueryStatus ==
    /\ apc = "query_status"
    /\ \E r \in {"ok", "not_sent", "no_reply", "no_match"} :
         /\ cmds' = Append(cmds, Logged(<<"estats">>, r,
                                 IF r = "ok" THEN dev.work_mode ELSE -1))
         /\ IF r # "ok" THEN apc' = "ping" /\ aret' = aret
            ELSE IF NoChangeNeeded(av_in.is_force, cmds[1].reply, dev.work_mode,
                                   av_in.account)
                 THEN apc' = "done" /\ aret' = <<"Ok">>
                 ELSE apc' = "write" /\ aret' = aret
    /\ UNCHANGED <<av_in, dev, ping_reply, notAv>>

NumWritten == Len(cmds) - 2

\* The next command of the write sequence, on a connection of its own.
AvWrite ==
    /\ apc = "write"
    /\ LET seq == WriteSequence(av_in.account, AvIp)
           cmd == seq[NumWritten + 1]
       IN \E r \in CmdResults(cmd) :
            /\ cmds' = Append(cmds, Logged(cmd, r, <<>>))
            /\ dev' = IF r = "not_sent" THEN dev ELSE Applied(dev, cmd)
            /\ IF ~ContinuesAfter(r) THEN apc' = "ping" /\ aret' = aret
               ELSE IF NumWritten + 1 = Len(seq)
                    THEN apc' = "done" /\ aret' = <<"Ok">>
                    ELSE apc' = "write" /\ aret' = aret
    /\ UNCHANGED <<av_in, ping_reply, notAv>>

\* The error a failed step returns: an io error when the command could not
\* be sent, TcpReadError when no response was read, ReadAvalonConfigError
\* when the response did not match.
StepError(result) ==
    CASE result = "not_sent" -> <<"Err", "StdIoError">>
      [] result = "no_reply" -> <<"Err", "TcpReadError">>
      [] OTHER               -> <<"Err", "ReadAvalonConfigError">>

\* try_ping: Ok(true) when send_ping got a reply, else PingFiledError.
try_ping(reply) ==
    IF reply = "ok" THEN <<"Ok", TRUE>> ELSE <<"Err", "PingFiledError">>

\* A faulty variant of OnSwitchError: the step's error is returned.
OnSwitchError_Propagates(e, ping) == e

\* Err(e) => { try_ping(&ip)?; Ok(()) }
OnSwitchError(e, ping) == IF ping[1] = "Err" THEN ping ELSE <<"Ok">>

\* switch_if_need failed: the ping decides the result.
AvPing ==
    /\ apc = "ping"
    /\ \E reply \in {"ok", "failed"} :
         /\ ping_reply' = reply
         /\ aret' = OnSwitchError(StepError(cmds[Len(cmds)].result), try_ping(reply))
    /\ apc' = "done"
    /\ UNCHANGED <<av_in, dev, cmds, notAv>>

\* tcp_write_pool_config, then tcp_write_reboot: the commands of config_pool
\* in the order the code sends them.
ConfigSequence(pools, ip) ==
    [i \in 1..Len(pools) |->
        <<"setpool", i - 1, update_pools(pools, ip)[i].url, update_pools(pools, ip)[i].user,
          update_pools(pools, ip)[i].password>>]
    \o << <<"reboot", 0>> >>

\* What a command of config_pool that reached the device does to it: a
\* setpool for a slot the device does not have changes nothing.
AppliedConfig(d, cmd) ==
    IF cmd[1] = "setpool" /\ cmd[2] + 1 > Len(d.pools) THEN d ELSE Applied(d, cmd)

\* The next setpool command of tcp_write_pool_config, on a connection of its
\* own; its error is returned by config_pool.
AvConfigWritePool ==
    /\ apc = "write_pool_config"
    /\ Len(cmds) < Len(av_in.pools)
    /\ LET cmd == ConfigSequence(av_in.pools, AvIp)[Len(cmds) + 1] IN
       \E r \in CmdResults(cmd) :
            /\ cmds' = Append(cmds, Logged(cmd, r, <<>>))
            /\ dev' = IF r = "not_sent" THEN dev ELSE AppliedConfig(dev, cmd)
            /\ IF ContinuesAfter(r) THEN apc' = apc /\ aret' = aret
               ELSE apc' = "done" /\ aret' = StepError(r)
    /\ UNCHANGED <<av_in, ping_reply, notAv>>

\* Every pool was written: tcp_write_reboot(&ip, 3), whose result is
\* config_pool's.
AvConfigReboot ==
    /\ apc = "write_pool_config"
    /\ Len(cmds) = Len(av_in.pools)
    /\ LET cmd == ConfigSequence(av_in.pools, AvIp)[Len(cmds) + 1] IN
       \E r \in CmdResults(cmd) :
            /\ cmds' = Append(cmds, Logged(cmd, r, <<>>))
            /\ dev' = IF r = "not_sent" THEN dev ELSE AppliedConfig(dev, cmd)
            /\ aret' = IF r = "ok" THEN <<"Ok">> ELSE StepError(r)
    /\ apc' = "done"
    /\ UNCHANGED <<av_in, ping_reply, notAv>>

-----------------------------------------------------------------------------
(***************************************************************************)
(* ant.rs: switch_account_if_diff, config_pool, reboot                     *)
(***************************************************************************)
MaxPools == 4           \* longest pool list given to config_pool
MaxCalls == 2           \* calls made on one device in a row

\* The device the calls talk to (the tests' 192.168.189.183).
AntIp == <<"192", ".", "168", ".", "189", ".", "183">>

AntPool(url, user, pass) == [url |-> url, user |-> user, pass |-> pass]

\* A config as JSON text: the pool list, the fields AntConfig declares (one
\* value stands for the thirteen of them) and `extra`, a field of the body
\* that AntConfig does not declare ("absent" when the body has none).
AntJson(pools, fields, extra) == [pools |-> pools, fields |-> fields, extra |-> extra]

NoJson == AntJson(<<>>, "none", "absent")
NoConf == [pools |-> <<>>, fields |-> "none"]

\* serde_json::from_str::<AntConfig>(&body): a field the struct does not
\* declare is skipped.
ParseAntConfig(json) == [pools |-> json.pools, fields |-> json.fields]

\* serde_json::to_string(&conf): the declared fields only.
SerializeAntConfig(c) == AntJson(c.pools, c.fields, "absent")

\* A faulty variant of is_same_account: the whole strings are compared.
is_same_account_Whole(c, account) == c.pools[1].user = account.name

\* AntConfig::is_same_account
is_same_account(c, account) ==
    FirstSegment(c.pools[1].user) = FirstSegment(account.name)

\* name + "." + ip_splited[2] + "x" + ip_splited[3]
\* A faulty variant of AntUser: the tag is made of the first two pieces.
AntUser_FirstPieces(name, ip) ==
    LET ip_splited == split(ip, ".") IN
    name \o <<".">> \o ip_splited[1] \o <<"x">> \o ip_splited[2]

AntUser(name, ip) ==
    LET ip_splited == split(ip, ".") IN
    name \o <<".">> \o ip_splited[3] \o <<"x">> \o ip_splited[4]

\* A faulty variant of apply_account: slot 3 gets pool3.
apply_account_Pool3(c, account, ip) ==
    [c EXCEPT !.pools[1] = AntPool(account.pool1, AntUser(account.name, ip), account.password),
              !.pools[2] = AntPool(account.pool2, AntUser(account.name, ip), account.password),
              !.pools[3] = AntPool(account.pool3, AntUser(account.name, ip), account.password)]

\* AntConfig::apply_account
apply_account(c, account, ip) ==
    [c EXCEPT !.pools[1] = AntPool(account.pool1, AntUser(account.name, ip), account.password),
              !.pools[2] = AntPool(account.pool2, AntUser(account.name, ip), account.password),
              !.pools[3] = AntPool(account.pool2, AntUser(account.name, ip), account.password)]

\* AntConfig::apply_config_pools: self.pools[i] for every i of the list; an
\* index past the end of self.pools panics.
IndexPanics(c, pools) == Len(pools) > Len(c.pools)

apply_config_pools(c, pools, ip) ==
    [c EXCEPT !.pools = [i \in 1..Len(c.pools) |->
        IF i <= Len(pools)
        THEN AntPool(pools[i].url, AntUser(pools[i].user, ip), pools[i].password)
        ELSE c.pools[i]]]

\* How one perform() of a curl transfer ends: "ok"; "not_sent" when the
\* request did not reach the device; "no_reply" when it did and the response
\* did not arrive (timeout, connection dropped).
PerformResults == {"ok", "not_sent", "no_reply"}

Transfer(req, result, body, reply) ==
    [req |-> req, result |-> result, body |-> body, reply |-> reply]

\* Every helper performs its request twice: transfer.perform()? inside the
\* block that collects the response, then easy.perform() on the same handle.
Performed(req, r1, r2, body, reply) ==
    <<Transfer(req, r1, body, IF r1 = "ok" THEN reply ELSE NoJson)>>
    \o (IF r1 = "ok"
        THEN <<Transfer(req, r2, body, IF r2 = "ok" THEN reply ELSE NoJson)>>
        ELSE <<>>)

\* Outcome pairs: the second perform only runs after the first succeeded.
PerformPairs == {<<r1, r2>> \in PerformResults \X PerformResults : r1 # "ok" => r2 = r1}

\* A faulty variant of helper_ok: the helper's errors are dropped.
helper_ok_Always(r1, r2) == TRUE

\* get_conf and update_conf: transfer.perform()?; easy.perform()?;
helper_ok(r1, r2) == r1 = "ok" /\ r2 = "ok"

\* reboot: transfer.perform()?; match easy.perform() { Ok(_) => (), Err(_e) => {} }
reboot_ok(r1, r2) == r1 = "ok"

ReachedDevice(transfers) ==
    {i \in 1..Len(transfers) : transfers[i].result # "not_sent"}

NoAccount == [name |-> <<>>, password |-> "", pool1 |-> "", pool2 |-> "", pool3 |-> ""]

UrlNames == <<"U1", "U2", "U3", "U4", "U5", "U6">>

\* A caller's pool list of n entries with n different urls.
CallerPools(n) == [i \in 1..n |-> [url |-> UrlNames[i], user |-> <<"a">>, password |-> "w"]]

\* What the three operations can be called with.
AntInputs ==
    {[op |-> "switch",
      account |-> [name |-> nm, password |-> "pw", pool1 |-> "P1", pool2 |-> "P2",
                   pool3 |-> "P3"],
      is_force |-> f, pools |-> <<>>] : nm \in Strings(MaxStr), f \in BOOLEAN}
    \cup {[op |-> "config_pool", account |-> NoAccount, is_force |-> FALSE,
           pools |-> CallerPools(n)] : n \in 0..MaxPools}
    \cup {[op |-> "reboot", account |-> NoAccount, is_force |-> FALSE, pools |-> <<>>]}

\* An operation is called on the device.  The first call is any of
\* AntInputs; a later call follows the return of the one before and repeats
\* it, not forced (what the next cycle does with an unchanged inventory).
AntCall ==
    /\ antpc \in {"idle", "done"}
    /\ ant_calls < MaxCalls
    /\ \E inp \in (IF ant_calls = 0 THEN AntInputs
                    ELSE {[ant_in EXCEPT !.is_force = FALSE]}) :
         /\ ant_in' = inp
         /\ antpc' = IF inp.op = "reboot" THEN "reboot" ELSE "get_conf"
    /\ ant_calls' = ant_calls + 1
    /\ ant_prev' = [ret |-> antret, user1 |-> adev.conf.pools[1].user]
    /\ conf' = NoConf
    /\ reqs' = <<>>
    /\ antret' = "none"
    /\ UNCHANGED <<adev, notAnt>>

\* get_conf: the response of the first perform is parsed.
AntGetConf ==
    /\ antpc = "get_conf"
    /\ \E rr \in PerformPairs, parses \in BOOLEAN :
         /\ ~helper_ok(rr[1], rr[2]) => parses
         /\ reqs' = reqs \o Performed("get_conf", rr[1], rr[2], NoJson, adev.conf)
         /\ IF ~helper_ok(rr[1], rr[2])
            THEN antpc' = "done" /\ antret' = <<"Err", "CurlError">> /\ conf' = conf
            ELSE IF ~parses
            THEN antpc' = "done" /\ antret' = <<"Err", "JsonError">> /\ conf' = conf
            ELSE antpc' = "loaded" /\ antret' = antret /\ conf' = ParseAntConfig(adev.conf)
    /\ UNCHANGED <<ant_in, adev, ant_calls, ant_prev, notAnt>>

\* switch_account_if_diff: the same-account test, then apply_account;
\* config_pool: apply_config_pools.
AntApply ==
    /\ antpc = "loaded"
    /\ IF ant_in.op = "switch"
       THEN IF ~ant_in.is_force /\ is_same_account(conf, ant_in.account)
            THEN antpc' = "done" /\ antret' = <<"Ok">> /\ conf' = conf
            ELSE /\ conf' = apply_account(conf, ant_in.account, AntIp)
                 /\ antpc' = "update_conf" /\ antret' = antret
       ELSE IF IndexPanics(conf, ant_in.pools)
            THEN antpc' = "panicked" /\ antret' = <<"Panic">> /\ conf' = conf
            ELSE /\ conf' = apply_config_pools(conf, ant_in.pools, AntIp)
                 /\ antpc' = "update_conf" /\ antret' = antret
    /\ UNCHANGED <<ant_in, adev, reqs, ant_calls, ant_prev, notAnt>>

\* update_conf: the serialized config is posted; the device stores it when
\* a post reaches it.
AntUpdateConf ==
    /\ antpc = "update_conf"
    /\ \E rr \in PerformPairs :
         LET body == SerializeAntConfig(conf)
             sent == Performed("set_conf", rr[1], rr[2], body, NoJson)
         IN /\ reqs' = reqs \o sent
            /\ adev' = IF ReachedDevice(sent) # {} THEN [adev EXCEPT !.conf = body] ELSE adev
            /\ IF helper_ok(rr[1], rr[2])
               THEN antpc' = "reboot" /\ antret' = antret
               ELSE antpc' = "done" /\ antret' = <<"Err", "CurlError">>
    /\ UNCHANGED <<ant_in, conf, ant_calls, ant_prev, notAnt>>

\* reboot: the error of the first perform is returned, the error of the
\* second one is dropped.
AntReboot ==
    /\ antpc = "reboot"
    /\ \E rr \in PerformPairs :
         LET sent == Performed("reboot", rr[1], rr[2], NoJson, NoJson)
         IN /\ reqs' = reqs \o sent
            /\ antret' = IF reboot_ok(rr[1], rr[2]) THEN <<"Ok">> ELSE <<"Err", "CurlError">>
    /\ antpc' = "done"
    /\ UNCHANGED <<ant_in, adev, conf, ant_calls, ant_prev, notAnt>>

-----------------------------------------------------------------------------
(***************************************************************************)
(* entry.rs: find_miner; ant.rs, avalon.rs, bluestar.rs: detect            *)
(***************************************************************************)
\* A text is a sequence of tokens.  The Ant signature takes two tokens and
\* the Avalon marker three, so that a text can hold a part of either.
ANT_SIGNATURE == <<"ant", "Miner">>
AVALON_MARKER == <<"Avalon", " ", "Device">>

RECURSIVE Texts(_, _)
Texts(alphabet, n) ==
    IF n = 0 THEN {<<>>}
    ELSE LET shorter == Texts(alphabet, n - 1) IN
         shorter \cup {Append(x, ch) : x \in {y \in shorter : Len(y) = n - 1},
                                       ch \in alphabet}

\* str::contains
contains(text, pat) ==
    \E i \in 1..(Len(text) - Len(pat) + 1) : SubSeq(text, i, i + Len(pat) - 1) = pat

NotSupported == <<"Err", "MinerNotSupportError">>

\* AntMiner::detect
AntDetect(hs, b) ==
    IF Len(hs) < 1 THEN NotSupported
    ELSE IF \E i \in 1..Len(hs) : contains(hs[i], ANT_SIGNATURE)
         THEN <<"Ok", "Ant">>
         ELSE NotSupported

\* AvalonMiner::detect
AvalonDetect(hs, b) ==
    IF contains(b, AVALON_MARKER) THEN <<"Ok", "Avalon">> ELSE NotSupported

\* BlueStarMiner::detect
BlueStarDetect(hs, b) == NotSupported

\* A faulty variant of MINERS: Avalon is tried first.
MINERS_AvalonFirst == <<"Avalon", "Ant", "BlueStar">>

\* pub const MINERS: [MinerType; 3]
MINERS == <<"Ant", "Avalon", "BlueStar">>

\* MinerType::detect
detect(miner, hs, b) ==
    CASE miner = "Ant"    -> AntDetect(hs, b)
      [] miner = "Avalon" -> AvalonDetect(hs, b)
      [] OTHER            -> BlueStarDetect(hs, b)

\* The GET of the bare ip: a failed transfer returns the curl error.
FindMinerProbe ==
    /\ dpc = "probe"
    /\ \E r \in {"ok", "curl_error"} :
         IF r = "ok"
         THEN dpc' = "loop" /\ di' = 1 /\ found' = found
         ELSE dpc' = "done" /\ di' = di /\ found' = <<"Err", "CurlError">>
    /\ UNCHANGED <<headers, page, notDet>>

\* One iteration of `for miner in MINERS.iter()`: the first Ok is returned.
FindMinerTry ==
    /\ dpc = "loop"
    /\ di <= Len(MINERS)
    /\ LET r == detect(MINERS[di], headers, page) IN
       IF r[1] = "Ok"
       THEN dpc' = "done" /\ found' = r /\ di' = di
       ELSE dpc' = dpc /\ found' = found /\ di' = di + 1
    /\ UNCHANGED <<headers, page, notDet>>

\* The loop ended without a match: Err(MinerNotSupportError).
FindMinerNone ==
    /\ dpc = "loop"
    /\ di > Len(MINERS)
    /\ dpc' = "done"
    /\ found' = NotSupported
    /\ UNCHANGED <<headers, page, di, notDet>>

DetIdle ==
    /\ headers = <<>>
    /\ page = <<>>
    /\ dpc = "idle"
    /\ di = 0
    /\ found = <<"None">>

-----------------------------------------------------------------------------
(***************************************************************************)
(* entry.rs: TimeConfig::from_str, now_account, now_perf                   *)
(***************************************************************************)
\* A clock text "HH:MM:SS" is the triple of its numbers.
\* NaiveTime::parse_from_str(text, "%H:%M:%S"): the time as seconds since
\* midnight, or a parse error for a text that is not a time of day.
ParseTime(text) ==
    IF text[1] \in 0..23 /\ text[2] \in 0..59 /\ text[3] \in 0..59
    THEN <<"Ok", text[1] * 3600 + text[2] * 60 + text[3]>>
    ELSE <<"Err", "ParseError">>

NoTimeConfig == [start |-> -1, end |-> -1, account_type |-> ""]

\* TimeConfig::from_str
from_str(start, end, label) ==
    IF ParseTime(start)[1] = "Err" \/ ParseTime(end)[1] = "Err"
    THEN <<"Err", "ParseError">>
    ELSE <<"Ok", [start |-> ParseTime(start)[2], end |-> ParseTime(end)[2],
                  account_type |-> label]>>

\* A faulty variant of now_account: a window is never taken to span midnight.
now_account_NoWrap(self, now) ==
    IF self.start < self.end /\ now >= self.start /\ now <= self.end
    THEN <<"Some", self.account_type>>
    ELSE <<"None">>

\* A faulty variant of now_account: a window whose start is its end holds
\* that one instant.
now_account_Instant(self, now) ==
    IF \/ (self.start <= self.end /\ now >= self.start /\ now <= self.end)
       \/ (self.start > self.end /\ (now >= self.start \/ now <= self.end))
    THEN <<"Some", self.account_type>>
    ELSE <<"None">>

\* TimeConfig::now_account, for the local time `now`
now_account(self, now) ==
    IF \/ (self.start < self.end /\ now >= self.start /\ now <= self.end)
       \/ (self.start > self.end /\ (now >= self.start \/ now <= self.end))
    THEN <<"Some", self.account_type>>
    ELSE <<"None">>

\* TimeConfig::now_perf, for the local time `now`
now_perf(self, now) ==
    IF \/ (self.start < self.end /\ now >= self.start /\ now <= self.end)
       \/ (self.start > self.end /\ (now >= self.start \/ now <= self.end))
    THEN <<"Some", self.account_type>>
    ELSE <<"None">>

\* Times of day the rows and the clock take.
ClockTexts ==
    { <<0, 0, 0>>, <<3, 0, 0>>, <<6, 0, 0>>, <<6, 0, 1>>, <<12, 0, 0>>,
      <<22, 0, 0>>, <<23, 30, 0>>, <<23, 59, 59>> }

\* let time_config = TimeConfig::from_str(start, end, account_type)?;
TwFromStr ==
    /\ twpc = "row"
    /\ LET r == from_str(tc_in.start, tc_in.end, tc_in.account_type) IN
       IF r[1] = "Ok"
       THEN time_config' = r[2] /\ twpc' = "built" /\ tw_ret' = tw_ret
       ELSE time_config' = time_config /\ twpc' = "done" /\ tw_ret' = r
    /\ UNCHANGED <<tc_in, now_time, tw_fn, notTw>>

\* time_config.now_account(), reading the local clock
TwNowAccount ==
    /\ twpc = "built"
    /\ \E now \in ClockTexts :
         /\ now_time' = now
         /\ tw_ret' = now_account(time_config, ParseTime(now)[2])
    /\ tw_fn' = "now_account"
    /\ twpc' = "done"
    /\ UNCHANGED <<tc_in, time_config, notTw>>

\* time_config.now_perf(), reading the local clock
TwNowPerf ==
    /\ twpc = "built"
    /\ \E now \in ClockTexts :
         /\ now_time' = now
         /\ tw_ret' = now_perf(time_config, ParseTime(now)[2])
    /\ tw_fn' = "now_perf"
    /\ twpc' = "done"
    /\ UNCHANGED <<tc_in, time_config, notTw>>

TwIdle ==
    /\ tc_in = NoTimeConfig
    /\ time_config = NoTimeConfig
    /\ now_time = <<0, 0, 0>>
    /\ tw_fn = "none"
    /\ twpc = "idle"
    /\ tw_ret = <<"None">>

-----------------------------------------------------------------------------
(***************************************************************************)
(* entry.rs: get_now_account_type_from_feishu, get_perf_time_from_feishu   *)
(* and the two first lines of switch_if_need                               *)
(***************************************************************************)
MaxRows == 2            \* longest account schedule (rows below the header)

\* A cell that is no time of day, as the cells of the header row.
NotATime == <<99, 99, 99>>

HeaderRow == [start |-> NotATime, end |-> NotATime, label |-> "header"]

\* values.iter().skip(1): the rows below the header, in table order.
DataRows(values) == SubSeq(values, 2, Len(values))

\* A faulty variant of get_now_account_end: a default profile.
get_now_account_end_Default == <<"Ok", "main">>

\* get_now_account_type_from_feishu after its loop: Err(FeishuParserJsonError)
get_now_account_end == <<"Err", "FeishuParserJsonError">>

\* get_perf_time_from_feishu after its loop: Ok("普通")
get_perf_time_end == <<"Ok", "NORMAL">>

\* The local clock does not run backwards between the reads of one resolution.
LaterTimes ==
    {t \in ClockTexts :
        reads = <<>> \/ ParseTime(t)[2] >= ParseTime(reads[Len(reads)].now)[2]}

Read(sheet, i, now) == [sheet |-> sheet, row |-> i, now |-> now]

\* One row of get_now_account_type_from_feishu's loop: from_str(..)?, then
\* now_account(); the first match is returned, and switch_if_need goes on
\* with the performance sheet.
SchedAccountRow ==
    /\ spc = "account"
    /\ srow <= Len(DataRows(sheets.account))
    /\ LET row == DataRows(sheets.account)[srow]
           tc  == from_str(row.start, row.end, row.label)
       IN IF tc[1] = "Err"
          THEN /\ spc' = "failed"
               /\ sret' = tc
               /\ UNCHANGED <<account_type, srow, reads>>
          ELSE \E now \in LaterTimes :
               /\ reads' = Append(reads, Read("account", srow, now))
               /\ LET hit == now_account(tc[2], ParseTime(now)[2]) IN
                  IF hit[1] = "Some"
                  THEN account_type' = hit[2] /\ spc' = "perf" /\ srow' = 1
                  ELSE account_type' = account_type /\ spc' = spc /\ srow' = srow + 1
               /\ sret' = sret
    /\ UNCHANGED <<perf_mode, sheets, notSched>>

\* No row matched: the error is returned through the ? of switch_if_need.
SchedAccountEnd ==
    /\ spc = "account"
    /\ srow > Len(DataRows(sheets.account))
    /\ IF get_now_account_end[1] = "Err"
       THEN spc' = "failed" /\ sret' = get_now_account_end
                            /\ account_type' = account_type /\ srow' = srow
       ELSE spc' = "perf" /\ sret' = sret
                          /\ account_type' = get_now_account_end[2] /\ srow' = 1
    /\ UNCHANGED <<perf_mode, sheets, reads, notSched>>

\* One row of get_perf_time_from_feishu's loop.
SchedPerfRow ==
    /\ spc = "perf"
    /\ srow <= Len(DataRows(sheets.perf))
    /\ LET row == DataRows(sheets.perf)[srow]
           tc  == from_str(row.start, row.end, row.label)
       IN IF tc[1] = "Err"
          THEN /\ spc' = "failed"
               /\ sret' = tc
               /\ UNCHANGED <<perf_mode, srow, reads>>
          ELSE \E now \in LaterTimes :
               /\ reads' = Append(reads, Read("perf", srow, now))
               /\ LET hit == now_perf(tc[2], ParseTime(now)[2]) IN
                  IF hit[1] = "Some"
                  THEN perf_mode' = hit[2] /\ spc' = "resolved" /\ srow' = 0
                  ELSE perf_mode' = perf_mode /\ spc' = spc /\ srow' = srow + 1
               /\ sret' = sret
    /\ UNCHANGED <<account_type, sheets, notSched>>

\* No performance row matched: the default.
SchedPerfEnd ==
    /\ spc = "perf"
    /\ srow > Len(DataRows(sheets.perf))
    /\ perf_mode' = get_perf_time_end[2]
    /\ spc' = "resolved"
    /\ srow' = 0
    /\ UNCHANGED <<account_type, sheets, reads, sret, notSched>>

-----------------------------------------------------------------------------
(***************************************************************************)
(* The worker name each pool-writing operation gives a device              *)
(***************************************************************************)
SfxOps == {"ant_switch", "ant_config_pool", "avalon_switch", "avalon_config_pool"}

SfxAccount(name) ==
    [name |-> name, password |-> "pw", pool1 |-> "P1", pool2 |-> "P2", pool3 |-> "P3",
     run_mode |-> "NORMAL"]

SfxPools(user) == <<[url |-> "U1", user |-> user, password |-> "w"]>>

SfxConf == [pools |-> <<AntPool("old1", <<"a">>, "oldpw"), AntPool("old2", <<"a">>, "oldpw"),
                        AntPool("old3", <<"a">>, "oldpw")>>,
            fields |-> "F"]

\* AntMiner::switch_account_if_diff writes: the user of the first pool slot.
SfxAntSwitch ==
    /\ sfx_user["ant_switch"] = <<>>
    /\ sfx_user' = [sfx_user EXCEPT !["ant_switch"] =
                       apply_account(SfxConf, SfxAccount(sfx_name), sfx_ip).pools[1].user]
    /\ UNCHANGED <<sfx_ip, sfx_name, notSfx>>

\* AntMiner::config_pool writes.
SfxAntConfigPool ==
    /\ sfx_user["ant_config_pool"] = <<>>
    /\ sfx_user' = [sfx_user EXCEPT !["ant_config_pool"] =
                       apply_config_pools(SfxConf, SfxPools(sfx_name), sfx_ip).pools[1].user]
    /\ UNCHANGED <<sfx_ip, sfx_name, notSfx>>

\* The Avalon switch_if_need writes: the user of its first setpool command.
SfxAvalonSwitch ==
    /\ sfx_user["avalon_switch"] = <<>>
    /\ sfx_user' = [sfx_user EXCEPT !["avalon_switch"] =
                       WriteSequence(SfxAccount(sfx_name), sfx_ip)[1][4]]
    /\ UNCHANGED <<sfx_ip, sfx_name, notSfx>>

\* AvalonMiner::config_pool writes.
SfxAvalonConfigPool ==
    /\ sfx_user["avalon_config_pool"] = <<>>
    /\ sfx_user' = [sfx_user EXCEPT !["avalon_config_pool"] =
                       update_pools(SfxPools(sfx_name), sfx_ip)[1].user]
    /\ UNCHANGED <<sfx_ip, sfx_name, notSfx>>

SfxIdle ==
    /\ sfx_ip = <<>>
    /\ sfx_name = <<>>
    /\ sfx_user = [op \in SfxOps |-> <<>>]

-----------------------------------------------------------------------------
(***************************************************************************)
(* avalon.rs: AvalonMiner::query and its tcp_query_* helpers               *)
(***************************************************************************)
\* How a query command can end: "ok" with the response its regex matches;
\* "no_match" with a response the regex does not match; "not_sent" when
\* connect or write failed; "no_reply" when reading the response failed.
QueryResults == {"ok", "no_match", "not_sent", "no_reply"}

\* The error of a tcp_cmd that did not return a response.
TcpCmdError(result) ==
    IF result = "not_sent" THEN <<"Err", "StdIoError">> ELSE <<"Err", "TcpReadError">>

\* MODEL=([^,]+), of the version response; "Avalon" without a match.
machine_type(result, d) ==
    IF result = "ok" THEN d.model ELSE "Avalon"

\* tcp_query_status: the regex over the estats response
tcp_query_status(result, d) ==
    CASE result = "ok"       -> <<"Ok", [work_mode |-> d.work_mode]>>
      [] result = "no_match" -> <<"Err", "ReadAvalonConfigError">>
      [] OTHER               -> TcpCmdError(result)

\* tcp_query_pool: one PoolConfig per match of the regex, none without one
tcp_query_pool(result, d) ==
    CASE result = "ok"       -> <<"Ok", d.pools>>
      [] result = "no_match" -> <<"Ok", <<>> >>
      [] OTHER               -> TcpCmdError(result)

\* tcp_query_power: PS[(\d+) (\d+) (\d+) (\d+) (\d+) (\d+)] of the response
tcp_query_power(result, d) ==
    CASE result = "ok"       -> <<"Ok", [power |-> d.power]>>
      [] result = "no_match" -> <<"Err", "ReadAvalonConfigError">>
      [] OTHER               -> TcpCmdError(result)

\* let versio = tcp_query_version(&ip, timeout_seconds)?;
AvqVersion ==
    /\ qpc = "version"
    /\ \E r \in QueryResults :
         /\ qcmds' = Append(qcmds, [cmd |-> "version", result |-> r])
         /\ IF r \in {"ok", "no_match"}
            THEN qpc' = "estats" /\ qret' = qret
            ELSE qpc' = "done" /\ qret' = TcpCmdError(r)
    /\ UNCHANGED <<qdev, notAvq>>

\* let work = tcp_query_status(&ip, timeout_seconds)?;
AvqStatus ==
    /\ qpc = "estats"
    /\ \E r \in QueryResults :
         /\ qcmds' = Append(qcmds, [cmd |-> "estats", result |-> r])
         /\ IF tcp_query_status(r, qdev)[1] = "Ok"
            THEN qpc' = "pools" /\ qret' = qret
            ELSE qpc' = "done" /\ qret' = tcp_query_status(r, qdev)
    /\ UNCHANGED <<qdev, notAvq>>

\* let pools = tcp_query_pool(&ip, timeout_seconds)?;
AvqPools ==
    /\ qpc = "pools"
    /\ \E r \in QueryResults :
         /\ qcmds' = Append(qcmds, [cmd |-> "pools", result |-> r])
         /\ IF tcp_query_pool(r, qdev)[1] = "Ok"
            THEN qpc' = "hashpower" /\ qret' = qret
            ELSE qpc' = "done" /\ qret' = tcp_query_pool(r, qdev)
    /\ UNCHANGED <<qdev, notAvq>>

\* let power_info = tcp_query_power(&ip, timeout_seconds)?; then MachineInfo
\* is built: pools[0] and pools[1] are indexed, which panics on a shorter list.
AvqPower ==
    /\ qpc = "hashpower"
    /\ \E r \in QueryResults :
         /\ qcmds' = Append(qcmds, [cmd |-> "ascset|0,hashpower", result |-> r])
         /\ LET pools == tcp_query_pool(qcmds[3].result, qdev)[2]
                power_info == tcp_query_power(r, qdev)
            IN IF power_info[1] = "Err" THEN qret' = power_info
               ELSE IF Len(pools) < 2 THEN qret' = <<"Panic", "index out of bounds">>
               ELSE qret' = <<"Ok", [machine_type |-> machine_type(qcmds[1].result, qdev),
                                     work_mode    |-> tcp_query_status(qcmds[2].result, qdev)[2].work_mode,
                                     power        |-> power_info[2].power]>>
    /\ qpc' = "done"
    /\ UNCHANGED <<qdev, notAvq>>

NoDevice == [model |-> "", work_mode |-> 0, power |-> 0, pools |-> <<>>]

AvqIdle ==
    /\ qdev = NoDevice
    /\ qpc = "idle"
    /\ qcmds = <<>>
    /\ qret = <<"None">>

-----------------------------------------------------------------------------
(* Sequential switch_if_need cycles of one caller. *)
Init ==
    /\ machine_map \in Inventories
    /\ SchedPreset("switch", "NORMAL")
    /\ OrchIdle /\ BatchIdle /\ TcpIdle /\ AvIdle /\ AntIdle /\ DetIdle /\ TwIdle /\ SfxIdle /\ AvqIdle

Next == \E c \in {1} : Cycle(c)

Spec == Init /\ [][Next]_vars

-----------------------------------------------------------------------------
(* switch_if_need calls that overlap, on a table left by earlier cycles. *)

\* The device whose failures the overlapping calls report.
SharedMachine == Machine(2, "avalon", "Online", "Some", "r2")

\* The tables earlier cycles may have left for it: no entry, or one entry
\* below the threshold (its earlier failures were all of one kind).
InitialCounts ==
    {<<>>} \cup {[k \in {key} |-> n] : key \in {KeyOpError(SharedMachine), KeyJoinError(SharedMachine)},
                                       n \in 1..(THRESHOLD - 1)}

\* The failures a table counts for a device, over all its keys.
RECURSIVE SumOver(_, _)
SumOver(map, keys) ==
    IF keys = {} THEN 0
    ELSE LET k == CHOOSE x \in keys : TRUE IN map[k] + SumOver(map, keys \ {k})

DeviceCount(map, d) == SumOver(map, {k \in DOMAIN map : KeyIp(k) = d})

InitConcurrent ==
    /\ machine_map = <<SharedMachine>>
    /\ SchedPreset("switch", "NORMAL")
    /\ CallsIdle /\ BatchIdle /\ TcpIdle /\ AvIdle /\ AntIdle /\ DetIdle /\ TwIdle /\ SfxIdle /\ AvqIdle
    /\ ERR_MAP \in InitialCounts
    /\ tally = [NoTally EXCEPT !.on = TRUE,
                               !.initial = [d \in Ips |-> DeviceCount(ERR_MAP, d)]]

NextConcurrent == \E c \in Procs : Cycle(c)

SpecConcurrent == InitConcurrent /\ [][NextConcurrent]_vars

-----------------------------------------------------------------------------
(* The dispatch loop of one switch_if_need call, for every schedule. *)

\* What the schedule sheets resolve to: the account sheet's first column,
\* and the performance sheet's (NORMAL when no window matches).
AccountTypes == {"main", "switch"}
PerfModes    == {"HIGH", "NORMAL"}

\* The run-mode columns of a row: high-power, normal, or an empty cell.
SheetModes == {"HIGH", "NORMAL", ""}

DispatchInventories ==
    { <<WithRunModes(Machine(2, "avalon", "Online", "Some", "r2"), sm, am)>>
        \o <<WithRunModes(Machine(1, "ant", st, sw, "r1"), am, sm)>>
        \o tail :
        am \in SheetModes, sm \in SheetModes, st \in {"Online", "Offline"},
        sw \in {"Some", "None"},
        tail \in { <<>>,
                   <<Machine(5, "bluestar", "Online", "Some", "r5"),
                     Machine(3, "ant", "Online", "Some", "r3")>> } }

InitDispatch ==
    /\ machine_map \in DispatchInventories
    /\ \E active \in AccountTypes, perf \in PerfModes : SchedPreset(active, perf)
    /\ OrchIdle /\ BatchIdle /\ TcpIdle /\ AvIdle /\ AntIdle /\ DetIdle /\ TwIdle /\ SfxIdle /\ AvqIdle

NextDispatch == \E c \in {1} : StartCycle(c) \/ Dispatch(c)

SpecDispatch == InitDispatch /\ [][NextDispatch]_vars

-----------------------------------------------------------------------------
(* One batch operation on a list of targets. *)
InitBatch ==
    /\ machine_map = <<>>
    /\ OrchIdle /\ SchedIdle /\ BatchIdle /\ TcpIdle /\ AvIdle /\ AntIdle /\ DetIdle /\ TwIdle /\ SfxIdle /\ AvqIdle

NextBatch ==
    \/ BatchCall
    \/ BatchTaskFinish
    \/ BatchJoin

SpecBatch == InitBatch /\ [][NextBatch]_vars

-----------------------------------------------------------------------------
(* One tcp_cmd call against a peer with a given script. *)
InitTcp ==
    /\ machine_map = <<>>
    /\ OrchIdle /\ SchedIdle /\ BatchIdle /\ AvIdle /\ AntIdle /\ DetIdle /\ TwIdle /\ SfxIdle /\ AvqIdle
    /\ script \in Scripts(MaxEvents)
    /\ peer_closes \in BOOLEAN
    /\ peer_streams \in {b \in BOOLEAN : b => ~peer_closes}
    /\ encoding \in Encodings
    /\ timeout_seconds \in {1, 3}
    /\ is_waiting_write \in BOOLEAN
    /\ tpc = "connect"
    /\ pos = 0
    /\ buf = <<>>
    /\ total_bytes_read = 0
    /\ count = 0
    /\ clock = 0
    /\ ended_by = "none"
    /\ tret = "none"

NextTcp ==
    \/ TcpConnect
    \/ TcpWrite
    \/ TcpRead

SpecTcp == InitTcp /\ [][NextTcp]_vars

\* tcp_cmd is straight-line code on its caller's thread and every stream.read
\* returns within the read timeout set at avalon.rs:607, so a call that can
\* take its next step takes it.
SpecTcpLive == InitTcp /\ [][NextTcp]_vars /\ WF_vars(NextTcp)

-----------------------------------------------------------------------------
(* One Avalon switch_account_if_diff call. *)
OldPool == [url |-> "old", user |-> <<"a">>, pass |-> "oldpw"]

InitAvalon ==
    /\ machine_map = <<>>
    /\ OrchIdle /\ SchedIdle /\ BatchIdle /\ TcpIdle /\ AntIdle /\ DetIdle /\ TwIdle /\ SfxIdle /\ AvqIdle
    /\ \E name \in Strings(MaxStr), mode \in RunModes, force \in BOOLEAN :
         av_in = [account |-> [name |-> name, password |-> "pw", pool1 |-> "P1",
                               pool2 |-> "P2", pool3 |-> "P3", run_mode |-> mode],
                  is_force |-> force]
    /\ \E user \in Strings(MaxStr) \ {<<>>}, wm \in 0..2 :
         dev = [pools |-> <<[OldPool EXCEPT !.user = user], OldPool, OldPool>>,
                work_mode |-> wm, reboots |-> 0]
    /\ apc = "query_account"
    /\ cmds = <<>>
    /\ ping_reply = "none"
    /\ aret = "none"

NextAvalon ==
    \/ AvQueryAccount
    \/ AvQueryStatus
    \/ AvWrite
    \/ AvPing

SpecAvalon == InitAvalon /\ [][NextAvalon]_vars

-----------------------------------------------------------------------------
(* Ant operations called one after the other on one device. *)
InitAnt ==
    /\ machine_map = <<>>
    /\ OrchIdle /\ SchedIdle /\ BatchIdle /\ TcpIdle /\ AvIdle /\ DetIdle /\ TwIdle /\ SfxIdle /\ AvqIdle
    /\ \E user \in Strings(MaxStr) \ {<<>>}, extra \in {"absent", "x"} :
         adev = [conf |-> AntJson(<<AntPool("old1", user, "oldpw"),
                                    AntPool("old2", <<"a">>, "oldpw"),
                                    AntPool("old3", <<"a">>, "oldpw")>>, "F", extra)]
    /\ ant_in = "none"
    /\ antpc = "idle"
    /\ conf = NoConf
    /\ reqs = <<>>
    /\ antret = "none"
    /\ ant_calls = 0
    /\ ant_prev = "none"

NextAnt ==
    \/ AntCall
    \/ AntGetConf
    \/ AntApply
    \/ AntUpdateConf
    \/ AntReboot

SpecAnt == InitAnt /\ [][NextAnt]_vars

-----------------------------------------------------------------------------
(* One find_miner call on a device answering with given headers and body. *)
HeaderTexts == Texts({"ant", "Miner"}, MaxStr)
BodyTexts   == Texts({"Avalon", " ", "Device"}, MaxStr + 1)

HeaderLists ==
    {<<>>} \cup {<<h>> : h \in HeaderTexts}
           \cup {<<h, g>> : h \in HeaderTexts, g \in HeaderTexts}

InitDetect ==
    /\ machine_map = <<>>
    /\ OrchIdle /\ SchedIdle /\ BatchIdle /\ TcpIdle /\ AvIdle /\ AntIdle /\ TwIdle /\ SfxIdle /\ AvqIdle
    /\ headers \in HeaderLists
    /\ page \in BodyTexts
    /\ dpc = "probe"
    /\ di = 0
    /\ found = <<"None">>

NextDetect ==
    \/ FindMinerProbe
    \/ FindMinerTry
    \/ FindMinerNone

SpecDetect == InitDetect /\ [][NextDetect]_vars

-----------------------------------------------------------------------------
(* One schedule row tested against the clock. *)
InitWindow ==
    /\ machine_map = <<>>
    /\ OrchIdle /\ SchedIdle /\ BatchIdle /\ TcpIdle /\ AvIdle /\ AntIdle /\ DetIdle /\ SfxIdle /\ AvqIdle
    /\ \E start \in ClockTexts \cup {<<24, 0, 0>>}, end \in ClockTexts :
         tc_in = [start |-> start, end |-> end, account_type |-> "night"]
    /\ time_config = NoTimeConfig
    /\ now_time = <<0, 0, 0>>
    /\ tw_fn = "none"
    /\ twpc = "row"
    /\ tw_ret = <<"None">>

NextWindow ==
    \/ TwFromStr
    \/ TwNowAccount
    \/ TwNowPerf

SpecWindow == InitWindow /\ [][NextWindow]_vars

-----------------------------------------------------------------------------
(* The schedule resolution of one switch_if_need call and its dispatch. *)

\* Rows an account sheet may hold: the night profile over midnight, the day
\* profile, rows whose start is their end, a row whose start is no time.
AccountRows ==
    { [start |-> <<22, 0, 0>>, end |-> <<6, 0, 0>>,  label |-> "switch"],
      [start |-> <<6, 0, 0>>,  end |-> <<22, 0, 0>>, label |-> "main"],
      [start |-> <<12, 0, 0>>, end |-> <<12, 0, 0>>, label |-> "main"],
      [start |-> <<0, 0, 0>>,  end |-> <<0, 0, 0>>,  label |-> "switch"],
      [start |-> NotATime,     end |-> <<6, 0, 0>>,  label |-> "main"] }

PerfRows ==
    { [start |-> <<6, 0, 0>>,  end |-> <<12, 0, 0>>, label |-> "HIGH"],
      [start |-> <<12, 0, 0>>, end |-> <<12, 0, 0>>, label |-> "HIGH"],
      [start |-> <<6, 0, 0>>,  end |-> NotATime,     label |-> "HIGH"] }

RECURSIVE RowLists(_, _)
RowLists(rows, n) ==
    IF n = 0 THEN {<<>>}
    ELSE RowLists(rows, n - 1) \cup
         {Append(l, r) : l \in {x \in RowLists(rows, n - 1) : Len(x) = n - 1}, r \in rows}

InitSchedule ==
    /\ machine_map = << Machine(1, "ant", "Online", "Some", "r1"),
                        Machine(2, "avalon", "Online", "Some", "r2") >>
    /\ OrchIdle /\ BatchIdle /\ TcpIdle /\ AvIdle /\ AntIdle /\ DetIdle /\ TwIdle /\ SfxIdle /\ AvqIdle
    /\ account_type = "none"
    /\ perf_mode = "none"
    /\ \E a \in RowLists(AccountRows, MaxRows), q \in RowLists(PerfRows, 1) :
         sheets = [account |-> <<HeaderRow>> \o a, perf |-> <<HeaderRow>> \o q]
    /\ spc = "account"
    /\ srow = 1
    /\ reads = <<>>
    /\ sret = <<"None">>

NextSchedule ==
    \/ SchedAccountRow
    \/ SchedAccountEnd
    \/ SchedPerfRow
    \/ SchedPerfEnd
    \/ \E c \in {1} : StartCycle(c) \/ Dispatch(c)

SpecSchedule == InitSchedule /\ [][NextSchedule]_vars

-----------------------------------------------------------------------------
(* The four pool-writing operations on one device, for every address. *)
IpPieces == {"8", "168", "190", "192"}

Ipv4Texts ==
    {<<a, ".", b, ".", c, ".", d>> : a \in IpPieces, b \in IpPieces,
                                     c \in IpPieces, d \in IpPieces}

InitSuffix ==
    /\ machine_map = <<>>
    /\ OrchIdle /\ SchedIdle /\ BatchIdle /\ TcpIdle /\ AvIdle /\ AntIdle /\ DetIdle /\ TwIdle /\ AvqIdle
    /\ sfx_ip \in Ipv4Texts
    /\ sfx_name \in Strings(MaxStr)
    /\ sfx_user = [op \in SfxOps |-> <<>>]

NextSuffix ==
    \/ SfxAntSwitch
    \/ SfxAntConfigPool
    \/ SfxAvalonSwitch
    \/ SfxAvalonConfigPool

SpecSuffix == InitSuffix /\ [][NextSuffix]_vars

-----------------------------------------------------------------------------
(* One AvalonMiner::query call. *)
InitAvQuery ==
    /\ machine_map = <<>>
    /\ OrchIdle /\ SchedIdle /\ BatchIdle /\ TcpIdle /\ AvIdle /\ AntIdle /\ DetIdle /\ TwIdle /\ SfxIdle
    /\ \E model \in {"A1246", "A1366"}, wm \in {0, 1}, power \in {0, 1284, 2953} :
         qdev = [model |-> model, work_mode |-> wm, power |-> power,
                 pools |-> <<OldPool, OldPool, OldPool>>]
    /\ qpc = "version"
    /\ qcmds = <<>>
    /\ qret = <<"None">>

NextAvQuery ==
    \/ AvqVersion
    \/ AvqStatus
    \/ AvqPools
    \/ AvqPower

SpecAvQuery == InitAvQuery /\ [][NextAvQuery]_vars

-----------------------------------------------------------------------------
(* One AvalonMiner::config_pool call. *)
InitAvConfig ==
    /\ machine_map = <<>>
    /\ OrchIdle /\ SchedIdle /\ BatchIdle /\ TcpIdle /\ AntIdle /\ DetIdle /\ TwIdle /\ SfxIdle /\ AvqIdle
    /\ \E n \in 0..MaxPools, user \in Strings(MaxStr) :
         av_in = [pools |-> [i \in 1..n |-> [CallerPools(n)[i] EXCEPT !.user = user]]]
    /\ dev = [pools |-> <<OldPool, OldPool, OldPool>>, work_mode |-> 0, reboots |-> 0]
    /\ apc = "write_pool_config"
    /\ cmds = <<>>
    /\ ping_reply = "none"
    /\ aret = "none"

NextAvConfig ==
    \/ AvConfigWritePool
    \/ AvConfigReboot

SpecAvConfig == InitAvConfig /\ [][NextAvConfig]_vars

-----------------------------------------------------------------------------
(***************************************************************************)
(* Properties of switch_if_need cycles (Spec)                              *)
(***************************************************************************)
CountersOf(d) == {k \in DOMAIN ERR_MAP : KeyIp(k) = d}

\* C1: a device that failed in every cycle so far is named by the cycle's
\* alert exactly on cycles 3 and 6 (no alert on cycles 1, 2, 4, 5), and after
\* the alert of cycle 3 its counter is back at 0.
C1_Debounce ==
    \A d \in Ips :
        (pc[1] = "idle" /\ cycles >= 1 /\ allFailed[d]) =>
            /\ (d \in lastAlert) <=> (cycles % THRESHOLD = 0)
            /\ (cycles % THRESHOLD = 0) => \A k \in CountersOf(d) : ERR_MAP[k] = 0

\* C2: a device is named by an alert only when it failed in three cycles in
\* a row; a successful cycle in between makes earlier failures not count.
C2_ConsecutiveOnly ==
    \A d \in lastAlert : streak[d] >= THRESHOLD

\* C3: no device's outcome keeps the batch call from recording the other
\* devices' outcomes and returning: the call never aborts.
C3_CallNeverAborts ==
    \A c \in Procs : pc[c] # "panicked"

\* C6: no network I/O (the alert notification) is in progress while the
\* caller holds the ERR_MAP lock.
C6_NoIoUnderLock ==
    \A c \in Procs : pc[c] = "notify" => lock # c

(***************************************************************************)
(* Properties of the batch operations (SpecBatch)                          *)
(***************************************************************************)
\* The per-device lists a returned value carries.  scan and watching return
\* Vec<MachineInfo>; reboot_batch returns (); config_batch returns a number;
\* none returns a failure list.
SuccessList(op, ret) == IF op \in {"scan", "watching"} THEN ret[2] ELSE <<>>
FailureList(op, ret) == <<>>

Occurrences(x, s) == Cardinality({i \in 1..Len(s) : s[i] = x})
NumWith(o) == Cardinality({i \in 1..Len(bhandles) : bhandles[i] = o})

\* C4: reboot_batch of 5 ips with 2 successes, 2 protocol errors and 1
\* timeout returns a result that reports exactly 3 failures.
C4_RebootBatchReportsFailures ==
    (/\ bpc = "returned" /\ bop = "reboot_batch" /\ Len(bips) = 5
     /\ NumWith("ok") = 2 /\ NumWith("proto_err") = 2 /\ NumWith("timeout") = 1)
    => Len(FailureList(bop, bret)) = 3

\* C5: after the join every target ip appears exactly once, in the success
\* list or in the failure list; a failed one is in the failure list.
C5_ResultsPartitionTargets ==
    bpc = "returned" =>
        \A i \in 1..Len(bips) :
            /\ Occurrences(bips[i], SuccessList(bop, bret))
                 + Occurrences(bips[i], FailureList(bop, bret)) = 1
            /\ bhandles[i] # "ok" => Occurrences(bips[i], FailureList(bop, bret)) = 1

(***************************************************************************)
(* Properties of tcp_cmd (SpecTcp)                                         *)
(***************************************************************************)
DataChunks(sc) ==
    LET F[i \in 0..Len(sc)] ==
            IF i = 0 THEN <<>>
            ELSE IF sc[i] = "data" THEN Append(F[i - 1], i) ELSE F[i - 1]
    IN F[Len(sc)]

ThreeConsecutiveWouldBlocks(sc) ==
    \E i \in 1..(Len(sc) - 2) : sc[i] = "wb" /\ sc[i + 1] = "wb" /\ sc[i + 2] = "wb"

\* The read loop ran to its end without a transport error.
ReadLoopEnded == tpc = "done" /\ ended_by \in {"eof", "would_block"}

\* C7: when the peer sends chunks with never three no-data signals in a row
\* between them and then closes, the response is the concatenation of all
\* the chunks (the chunks being UTF-8 text).
C7_ReassemblesAllChunks ==
    (/\ ReadLoopEnded /\ peer_closes
     /\ ~ThreeConsecutiveWouldBlocks(script) /\ DataChunks(script) # <<>>
     /\ Decodes(encoding, Len(DataChunks(script))))
    => tret = <<"Ok", DataChunks(script)>>

\* The peer yields zero bytes and never closes.
SilentPeer == DataChunks(script) = <<>> /\ ~peer_closes /\ ~peer_streams

\* C8: against a silent peer that never closes the call fails, not before the
\* configured timeout has elapsed, with an error kind of its own: not the
\* kind returned when the peer closes without data nor the kind of other
\* read failures.
C8_SilentPeerTimeoutKind ==
    (ReadLoopEnded /\ SilentPeer) =>
        /\ tret[1] = "Err"
        /\ clock >= timeout_seconds * TICKS_PER_SECOND
        /\ tret[2] \notin {ReadLoopResult(0, <<>>)[2], "StdIoError"}

\* (the time part of C8 alone)
SilentPeerNotEarly ==
    (ReadLoopEnded /\ SilentPeer) =>
        tret[1] = "Err" /\ clock >= timeout_seconds * TICKS_PER_SECOND

(***************************************************************************)
(* Properties of the Avalon switch (SpecAvalon)                            *)
(***************************************************************************)
\* The part of a string before its first ".", the whole string without one.
PreDotPrefix(s) ==
    LET dots == {i \in 1..Len(s) : s[i] = "."} IN
    IF dots = {} THEN s
    ELSE SubSeq(s, 1, (CHOOSE i \in dots : \A j \in dots : i <= j) - 1)

BothQueriesAnswered == Len(cmds) >= 2 /\ cmds[2].result = "ok"

WritesIssued == SubSeq(cmds, 3, Len(cmds))

\* C9: once the device's first pool user and work mode have been read, the
\* switch ends without any setpool, workmode or reboot command if and only if
\* it is not forced, the pre-dot prefixes of that user and of the account name
\* are equal, and the work mode equals the target's (1 for high power, else 0).
C9_NoOpRule ==
    (apc = "done" /\ BothQueriesAnswered) =>
        ((WritesIssued = <<>>) <=>
            (/\ ~av_in.is_force
             /\ PreDotPrefix(cmds[1].reply) = PreDotPrefix(av_in.account.name)
             /\ cmds[2].reply = (IF av_in.account.run_mode = "HIGH" THEN 1 ELSE 0)))

\* C9 witness: a non-forced call ended as a no-op although the device's user
\* and the account name differ as strings (only their prefixes agree).
C9_Witness ==
    /\ apc = "done" /\ BothQueriesAnswered /\ WritesIssued = <<>>
    /\ cmds[1].reply # av_in.account.name
    /\ aret = <<"Ok">>

ExpectedOrder ==
    << <<"setpool", 0>>, <<"setpool", 1>>, <<"setpool", 2>>, <<"workmode">>, <<"reboot">> >>

TargetUrl(slot) ==
    CASE slot = 0 -> av_in.account.pool1
      [] slot = 1 -> av_in.account.pool2
      [] OTHER    -> av_in.account.pool3

\* C10: the write commands are issued in the order setpool 0, setpool 1,
\* setpool 2, workmode, reboot, each only after all earlier ones succeeded;
\* after a failed command none follows (no reboot), and the commands that
\* succeeded stay applied on the device.
C10_OrderedNonAtomic ==
    LET w == WritesIssued IN
    /\ Len(w) <= Len(ExpectedOrder)
    /\ \A i \in 1..Len(w) :
         /\ SubSeq(w[i].cmd, 1, Len(ExpectedOrder[i])) = ExpectedOrder[i]
         /\ i < Len(w) => w[i].result = "ok"
         /\ (w[i].result = "ok" /\ i <= 3) =>
                /\ dev.pools[i].url = TargetUrl(i - 1)
                /\ PreDotPrefix(dev.pools[i].user) = PreDotPrefix(av_in.account.name)
         /\ (w[i].result = "ok" /\ i = 4) =>
                dev.work_mode = (IF av_in.account.run_mode = "HIGH" THEN 1 ELSE 0)
    /\ dev.reboots = Cardinality({i \in 1..Len(w) : i = 5 /\ w[i].result = "ok"})
    /\ (\E i \in 1..Len(w) : w[i].result # "ok") => apc \in {"ping", "done"}

\* C10 witness: the workmode command failed after three setpool commands
\* succeeded; the pools stay written and no reboot was sent.
C10_Witness ==
    /\ apc = "done" /\ Len(WritesIssued) = 4
    /\ WritesIssued[4].result # "ok"
    /\ dev.pools[3].url = av_in.account.pool3
    /\ dev.reboots = 0

AStepFailed == \E i \in 1..Len(cmds) : cmds[i].result # "ok"

\* C11: when a step of the Avalon switch failed (a query, a setpool, the
\* workmode or the reboot command), the result of switch_account_if_diff is
\* Ok if the ping got a reply and the ping-failure error otherwise, never the
\* step's own error; without a failed step no ping is sent.
C11_PingFallback ==
    apc = "done" =>
        IF AStepFailed
        THEN /\ ping_reply \in {"ok", "failed"}
             /\ ping_reply = "ok" => aret = <<"Ok">>
             /\ ping_reply = "failed" => aret = <<"Err", "PingFiledError">>
        ELSE ping_reply = "none" /\ aret = <<"Ok">>

\* C11 witness: a setpool command got no response, the device answered the
\* ping and the switch returned Ok.
C11_Witness ==
    /\ apc = "done" /\ Len(cmds) >= 3
    /\ cmds[Len(cmds)].cmd[1] = "setpool" /\ cmds[Len(cmds)].result = "no_reply"
    /\ ping_reply = "ok" /\ aret = <<"Ok">>

(***************************************************************************)
(* Properties of the Avalon reboot command (SpecTcp)                       *)
(***************************************************************************)
\* The command that does not wait for a response is the reboot command.
IsRebootCommand == ~is_waiting_write

TransportError == ended_by \in {"connect_error", "write_error", "read_error"}

\* C12: the reboot command reads no response and returns Ok even when the
\* connect or the write failed; the same transport error in a command that
\* waits for its response is returned as a failure.
C12_RebootSwallowsTransportErrors ==
    tpc = "done" =>
        /\ IsRebootCommand => (pos = 0 /\ buf = <<>> /\ tcp_write_reboot(tret)[1] = "Ok")
        /\ (~IsRebootCommand /\ TransportError) => tret[1] = "Err"

(***************************************************************************)
(* Properties of the Ant operations (SpecAnt)                              *)
(***************************************************************************)
TransfersOf(kind) == {i \in 1..Len(reqs) : reqs[i].req = kind}

HasDot(str) == \E i \in 1..Len(str) : str[i] = "."

\* C13: after a switch to an account returned Ok, a second, non-forced
\* switch to the same account performs no set-config and no reboot transfer,
\* leaves the pre-dot prefix of slot 1's user as it was, and fails only when
\* its get-config fails.
C13_AntSwitchIdempotent ==
    (ant_calls >= 2 /\ ant_in.op = "switch" /\ ant_prev.ret = <<"Ok">>) =>
        /\ TransfersOf("set_conf") = {} /\ TransfersOf("reboot") = {}
        /\ PreDotPrefix(adev.conf.pools[1].user) = PreDotPrefix(ant_prev.user1)
        /\ antpc \in {"get_conf", "loaded", "done"}
        /\ (antpc = "done" /\ antret # <<"Ok">>) =>
              antret \in {<<"Err", "CurlError">>, <<"Err", "JsonError">>}

\* C13 witness: the first switch wrote an account whose name contains a dot;
\* the second call found it and returned Ok after get-config alone.
C13_Witness ==
    /\ ant_calls = 2 /\ antpc = "done" /\ ant_in.op = "switch"
    /\ ant_prev.ret = <<"Ok">> /\ antret = <<"Ok">>
    /\ HasDot(ant_in.account.name)
    /\ adev.conf.pools[1] = AntPool("P1", AntUser(ant_in.account.name, AntIp), "pw")

StepRank(kind) ==
    CASE kind = "get_conf" -> 1
      [] kind = "set_conf" -> 2
      [] OTHER             -> 3

AllOk(kind) ==
    /\ Cardinality(TransfersOf(kind)) = 2
    /\ \A i \in TransfersOf(kind) : reqs[i].result = "ok"

SomeFailed(kind) == \E i \in TransfersOf(kind) : reqs[i].result # "ok"

Fetched == reqs[1].reply

PushedBodies == {reqs[i].body : i \in TransfersOf("set_conf")}

\* C15 (as stated): in every config pushed by a switch or by config_pool,
\* slot 3's url equals slot 2's url.
C15_Slot3EqualsSlot2Always ==
    \A b \in PushedBodies : b.pools[3].url = b.pools[2].url

\* C15 (amended): a config pushed by a switch has slot 3's url equal to slot
\* 2's url, the account's pool2; a config pushed by config_pool has in slot 3
\* the url of the caller's third pool, or the fetched one when the caller
\* gave fewer than three.
C15_Slot3AfterSwitch ==
    \A b \in PushedBodies :
        IF ant_in.op = "switch"
        THEN b.pools[3].url = b.pools[2].url /\ b.pools[3].url = ant_in.account.pool2
        ELSE b.pools[3].url = (IF Len(ant_in.pools) >= 3 THEN ant_in.pools[3].url
                               ELSE Fetched.pools[3].url)

\* C15 witness: a switch pushed a config for an account whose pool3 differs
\* from its pool2.
C15_Witness ==
    /\ ant_calls >= 1 /\ ant_in.op = "switch" /\ PushedBodies # {}
    /\ ant_in.account.pool3 # ant_in.account.pool2
    /\ \A b \in PushedBodies : b.pools[3].url = ant_in.account.pool2

\* C16: every config pushed by a switch or by config_pool has every non-pool
\* field equal to the fetched config's.
C16_NonPoolFieldsUnchanged ==
    \A b \in PushedBodies : b.fields = Fetched.fields /\ b.extra = Fetched.extra

\* C17: config_pool with a list of n pools never crashes; the config it
\* pushes has in slot i <= min(n, 3) the i-th pool's url and password with
\* user + "." + ip suffix, and in the other slots the fetched values; when it
\* returns Ok the config was pushed and the reboot requested.
C17_ConfigPoolsPositional ==
    (ant_calls >= 1 /\ ant_in.op = "config_pool") =>
        /\ antpc # "panicked"
        /\ \A b \in PushedBodies : \A i \in 1..Len(Fetched.pools) :
              b.pools[i] = IF i <= Len(ant_in.pools)
                           THEN AntPool(ant_in.pools[i].url,
                                        ant_in.pools[i].user \o <<".", "189", "x", "183">>,
                                        ant_in.pools[i].password)
                           ELSE Fetched.pools[i]
        /\ (antpc = "done" /\ antret = <<"Ok">>) =>
              (TransfersOf("set_conf") # {} /\ TransfersOf("reboot") # {})

FirstReboot == CHOOSE i \in TransfersOf("reboot") : \A j \in TransfersOf("reboot") : i <= j

\* C18: when the reboot request was issued, the call (switch, config_pool or
\* reboot) returns Ok, also when the response times out or the connection
\* is dropped.
C18_AntRebootBestEffort ==
    (antpc = "done" /\ TransfersOf("reboot") # {} /\ reqs[FirstReboot].result # "not_sent")
        => antret = <<"Ok">>

-----------------------------------------------------------------------------
(* The dispatch loop of switch_if_need (SpecDispatch). *)

RowOf(ip) == CHOOSE m \in SeqToSet(machine_map) : m.ip = ip

Tasks == {spawned[1][i] : i \in 1..Len(spawned[1])}

AndedModes(a, b) == IF a = "HIGH" /\ b = "HIGH" THEN "HIGH" ELSE "NORMAL"

\* C19 as stated: a dispatched task's run-mode is high-power only if the
\* device's alternate account's run-mode and the performance window are
\* both high-power, whichever profile is active; otherwise it is normal.
C19_AlternateRunModeGoverns ==
    \A t \in Tasks :
        t.run_mode = AndedModes(RowOf(t.ip).switch_run_mode, perf_mode)

\* C19: a dispatched task's run-mode is high-power exactly when the run-mode
\* of the account selected as target (the main account while the main
\* profile is active, the alternate account otherwise) and the performance
\* window are both high-power; otherwise it is normal.
C19_TargetRunMode ==
    \A t \in Tasks :
        LET m == RowOf(t.ip)
            own == IF account_type = "main" THEN m.account_run_mode
                   ELSE m.switch_run_mode
        IN t.run_mode = AndedModes(own, perf_mode)

\* The main profile is active and a task asks for high power although the
\* device's alternate account is not high-power; another was downgraded.
C19_Witness ==
    /\ account_type = "main"
    /\ \E t \in Tasks : t.run_mode = "HIGH" /\ RowOf(t.ip).switch_run_mode # "HIGH"
    /\ \E t \in Tasks : t.run_mode = "NORMAL"

EligibleIps ==
    {m.ip : m \in {r \in SeqToSet(machine_map) :
                      r.status = "Online" /\ r.switch_account = "Some"}}

DispatchOver == pc[1] \notin {"idle", "dispatch"}

\* C20: a task is dispatched for a device iff it is Online and has an
\* alternate account; one task per such device, non-forced, aimed at the
\* main account while the main profile is active and at the alternate
\* account otherwise; no other device enters the list the failures are
\* drawn from.
C20_DispatchSet ==
    /\ \A t \in Tasks :
          /\ t.ip \in EligibleIps
          /\ t.is_force = FALSE
          /\ t.account = (IF account_type = "main" THEN "account" ELSE "switch_account")
    /\ \A i, j \in 1..Len(spawned[1]) : spawned[1][i].ip = spawned[1][j].ip => i = j
    /\ {process_machines[1][i].ip : i \in 1..Len(process_machines[1])} \subseteq EligibleIps
    /\ DispatchOver => {t.ip : t \in Tasks} = EligibleIps

-----------------------------------------------------------------------------
(* The end of a switch_if_need call (Spec). *)

\* C21: whatever the tasks' outcomes, a call that got past loading its
\* inputs ends by returning Ok: it never ends another way, and after a
\* returned cycle the result is Ok.
C21_ReturnsSuccess ==
    \A c \in Procs :
        /\ ended[c] \in {<<"None">>, <<"Ok">>}
        /\ (pc[c] = "idle" /\ cycles >= 1 /\ c = 1) => ended[c] = <<"Ok">>

EligibleRows == {r \in SeqToSet(machine_map) : r.status = "Online" /\ r.switch_account = "Some"}

\* C22: with an Online bluestar device that has an alternate account in the
\* inventory, the call does not abort; after the join every eligible device,
\* the bluestar one included, has been dispatched, and the bluestar device is
\* in the failure list.
C22_BluestarDeviceScoped ==
    \A b \in {r \in EligibleRows : r.name = "bluestar"} :
        /\ ended[1] # <<"Panic">>
        /\ pc[1] = "collected" =>
              /\ EligibleRows \subseteq SeqToSet(process_machines[1])
              /\ \E i \in 1..Len(error_ips[1]) : KeyIp(error_ips[1][i]) = b.ip

-----------------------------------------------------------------------------
(* The failure-count table (Spec). *)

C29_OneCounterPerDevice ==
    \A d \in Ips :
        /\ Cardinality(CountersOf(d)) <= 1
        /\ (pc[1] = "idle" /\ cycles = THRESHOLD /\ allFailed[d]) => d \in lastAlert

CountBefore(k) == IF k \in DOMAIN counts_before THEN counts_before[k] ELSE 0

\* The keys whose entry goes from 2 to 3 in the running cycle.
ReachedThree(c) ==
    {k \in SeqToSet(error_ips[c]) : CountBefore(k) + 1 = THRESHOLD}

NoDuplicates(q) == \A i, j \in 1..Len(q) : q[i] = q[j] => i = j

-----------------------------------------------------------------------------
(* Vendor detection (SpecDetect). *)

\* The text holds the pattern as a run of consecutive tokens.
Occurs(pat, text) == \E i, j \in 1..Len(text) : SubSeq(text, i, j) = pat

SomeHeaderHasAntSignature == \E i \in 1..Len(headers) : Occurs(ANT_SIGNATURE, headers[i])

\* C23: detection that ran to its end answers Ant when a header holds the Ant
\* signature (whatever the body holds), else Avalon when the body holds the
\* Avalon marker, else NotSupported; it never answers the third vendor, and
\* never Ant for an empty header list.
C23_FirstMatchOrder ==
    (dpc = "done" /\ found # <<"Err", "CurlError">>) =>
        /\ found = (IF SomeHeaderHasAntSignature THEN <<"Ok", "Ant">>
                    ELSE IF Occurs(AVALON_MARKER, page) THEN <<"Ok", "Avalon">>
                    ELSE <<"Err", "MinerNotSupportError">>)
        /\ found # <<"Ok", "BlueStar">>
        /\ headers = <<>> => found # <<"Ok", "Ant">>

\* C23 witness: a header holds the Ant signature, the body holds the Avalon
\* marker, and the answer is Ant.
C23_Witness ==
    /\ dpc = "done" /\ found = <<"Ok", "Ant">>
    /\ SomeHeaderHasAntSignature
    /\ Occurs(AVALON_MARKER, page)

-----------------------------------------------------------------------------
(* TimeWindow membership (SpecWindow). *)

\* Clock texts compared as times of day: hours, then minutes, then seconds.
NotAfter(a, b) ==
    \/ a[1] < b[1]
    \/ a[1] = b[1] /\ a[2] < b[2]
    \/ a[1] = b[1] /\ a[2] = b[2] /\ a[3] <= b[3]

Tested == twpc = "done" /\ tw_fn \in {"now_account", "now_perf"}

IsMember == tw_ret = <<"Some", tc_in.account_type>>

\* C24: for a window with start after end a time is a member iff it is at or
\* after start, or at or before end; with start before end iff it lies
\* between them, both ends included; so 22:00:00-06:00:00 holds 23:30:00
\* and 03:00:00 and not 12:00:00.  Non-members get no label.
C24_WindowMembership ==
    Tested =>
        LET s == tc_in.start
            e == tc_in.end
            t == now_time
        IN /\ tw_ret \in {<<"None">>, <<"Some", tc_in.account_type>>}
           /\ (s # e /\ ~NotAfter(s, e)) =>
                 (IsMember <=> (NotAfter(s, t) \/ NotAfter(t, e)))
           /\ (s # e /\ NotAfter(s, e)) =>
                 (IsMember <=> (NotAfter(s, t) /\ NotAfter(t, e)))
           /\ (s = <<22, 0, 0>> /\ e = <<6, 0, 0>>) =>
                 /\ t \in {<<23, 30, 0>>, <<3, 0, 0>>} => IsMember
                 /\ t = <<12, 0, 0>> => ~IsMember

\* C24 witness: the window 22:00:00-06:00:00 tested at 03:00:00, after
\* midnight, gives its label.
C24_Witness ==
    /\ Tested /\ IsMember
    /\ tc_in.start = <<22, 0, 0>> /\ tc_in.end = <<6, 0, 0>>
    /\ now_time = <<3, 0, 0>>

-----------------------------------------------------------------------------
(* The ip-derived worker tag (SpecSuffix). *)

\* C25: for the address a.b.c.d every operation that has written the pools
\* (Ant switch, Ant config_pool, Avalon switch, Avalon config_pool) wrote the
\* given name followed by "." and the tag c "x" d, so all of them wrote the
\* same user; 192.168.190.8 gives 190x8.
C25_SuffixRule ==
    \A op \in SfxOps :
        sfx_user[op] # <<>> =>
            /\ sfx_user[op] = sfx_name \o <<".", sfx_ip[5], "x", sfx_ip[7]>>
            /\ sfx_ip = <<"192", ".", "168", ".", "190", ".", "8">> =>
                  SubSeq(sfx_user[op], Len(sfx_name) + 2, Len(sfx_user[op])) = <<"190", "x", "8">>

\* C25 witness: on 192.168.190.8 all four operations have written, and the
\* Ant switch and the Avalon config_pool wrote the same user.
C25_Witness ==
    /\ sfx_ip = <<"192", ".", "168", ".", "190", ".", "8">>
    /\ \A op \in SfxOps : sfx_user[op] # <<>>
    /\ sfx_user["ant_switch"] = sfx_user["avalon_config_pool"]
    /\ sfx_name # <<>>

-----------------------------------------------------------------------------
(* The Avalon telemetry query (SpecAvQuery). *)

ResultOf(cmd) ==
    LET at == {i \in 1..Len(qcmds) : qcmds[i].cmd = cmd} IN
    IF at = {} THEN "not_issued" ELSE qcmds[CHOOSE i \in at : TRUE].result

\* C26: when the power response lacks the numeric tuple the query still
\* succeeds, with power 0; the query fails with the config-read error only
\* when the status response could not be parsed.
C26_PowerQueryTolerant ==
    qpc = "done" =>
        /\ (ResultOf("ascset|0,hashpower") = "no_match" /\ ResultOf("pools") = "ok") =>
              (qret[1] = "Ok" /\ qret[2].power = 0)
        /\ qret = <<"Err", "ReadAvalonConfigError">> => ResultOf("estats") = "no_match"

-----------------------------------------------------------------------------
(* Avalon config_pool (SpecAvConfig). *)

SetpoolsOk == {i \in 1..Len(cmds) : cmds[i].cmd[1] = "setpool" /\ cmds[i].result = "ok"}

\* C27: config_pool sends one setpool per pool of the caller's list, in list
\* order, for the slot of the list position, the url behind
\* "stratum+tcp://" and the user before the ip's tag, then a reboot; a
\* command is sent only after all earlier ones succeeded, so the reboot
\* follows only a fully written list, and the slots written before a failed
\* setpool stay written.
C27_ConfigPoolsSequence ==
    LET n == Len(av_in.pools) IN
    /\ Len(cmds) <= n + 1
    /\ \A i \in 1..Len(cmds) :
         /\ i <= n =>
               cmds[i].cmd = <<"setpool", i - 1, <<"stratum+tcp://", av_in.pools[i].url>>,
                               av_in.pools[i].user \o <<".", "189", "x", "162">>,
                               av_in.pools[i].password>>
         /\ i = n + 1 => (cmds[i].cmd[1] = "reboot" /\ Cardinality(SetpoolsOk) = n)
         /\ i < Len(cmds) => cmds[i].result = "ok"
         /\ (i \in SetpoolsOk /\ i <= Len(dev.pools)) =>
               dev.pools[i] = [url  |-> <<"stratum+tcp://", av_in.pools[i].url>>,
                               user |-> av_in.pools[i].user \o <<".", "189", "x", "162">>,
                               pass |-> av_in.pools[i].password]
    /\ apc = "done" =>
         /\ Cardinality(SetpoolsOk) = n <=> (Len(cmds) = n + 1)
         /\ Cardinality(SetpoolsOk) < n => (dev.reboots = 0 /\ aret[1] = "Err")

\* C27 witness: of three pools the first was written, the second setpool
\* failed, and no reboot was sent.
C27_Witness ==
    /\ apc = "done" /\ Len(av_in.pools) = 3 /\ Len(cmds) = 2
    /\ cmds[1].result = "ok" /\ cmds[2].result = "no_reply"
    /\ dev.pools[1].url = <<"stratum+tcp://", "U1">>
    /\ dev.reboots = 0

-----------------------------------------------------------------------------
(* Pairing of tasks and outcomes in switch_if_need (Spec). *)

Paired(c) == pc[c] \in {"collected", "count", "notify"}

\* C31: whatever the order the spawned tasks finished in, the failure list
\* built after the join holds, for the i-th dispatched machine, the key of
\* an operation error exactly when its own task returned an error and the key
\* of a join error exactly when its own task crashed, and nothing else: no
\* failure is recorded against a sibling.
C31_OwnOutcome ==
    \A c \in Procs : Paired(c) =>
        /\ \A i \in 1..Len(process_machines[c]) :
             /\ KeyOpError(process_machines[c][i]) \in SeqToSet(error_ips[c])
                    <=> handles[c][i] = "err"
             /\ KeyJoinError(process_machines[c][i]) \in SeqToSet(error_ips[c])
                    <=> handles[c][i] = "crash"
        /\ Len(error_ips[c]) =
               Cardinality({i \in 1..Len(handles[c]) : handles[c][i] # "ok"})

\* C31 witness: the second task finished first and succeeded, the first
\* finished last with an error, and the list names the first machine only.
C31_Witness ==
    /\ pc[1] = "collected"
    /\ finished[1] = <<2, 1>>
    /\ handles[1] = <<"err", "ok">>
    /\ error_ips[1] = <<KeyOpError(process_machines[1][1])>>

-----------------------------------------------------------------------------
(* Overlapping switch_if_need calls (SpecConcurrent). *)

Quiescent == lock = 0 /\ \A c \in Procs : pc[c] = "idle"

\* C32: when calls that overlapped and each reported a failure of the
\* device have returned, the alerts sent for a
\* device number (initial count + failures reported) divided by 3, rounded
\* down, and its count is (initial count + failures reported) modulo 3.
C32_NoLostUpdates ==
    (Quiescent /\ tally.overlapped /\ tally.reporters = Procs) =>
        \A d \in Ips :
            /\ tally.alerts[d] = (tally.initial[d] + tally.failures[d]) \div THRESHOLD
            /\ DeviceCount(ERR_MAP, d) = (tally.initial[d] + tally.failures[d]) % THRESHOLD

-----------------------------------------------------------------------------
(* Schedule resolution (SpecSchedule). *)

Seconds(t) == t[1] * 3600 + t[2] * 60 + t[3]

IsTime(t) == t[1] \in 0..23 /\ t[2] \in 0..59 /\ t[3] \in 0..59

\* The window of a row holds the time t.
Within(row, t) ==
    /\ IsTime(row.start) /\ IsTime(row.end)
    /\ \/ Seconds(row.start) < Seconds(row.end)
          /\ Seconds(row.start) <= Seconds(t) /\ Seconds(t) <= Seconds(row.end)
       \/ Seconds(row.start) > Seconds(row.end)
          /\ (Seconds(t) >= Seconds(row.start) \/ Seconds(t) <= Seconds(row.end))

WasRead(sheet, i) == \E j \in 1..Len(reads) : reads[j].sheet = sheet /\ reads[j].row = i

TimeAt(sheet, i) ==
    reads[CHOOSE j \in 1..Len(reads) : reads[j].sheet = sheet /\ reads[j].row = i].now

\* Row i is the first row of the sheet whose window held the current time.
FirstMatch(sheet, i) ==
    /\ i \in 1..Len(DataRows(sheets[sheet]))
    /\ \A j \in 1..i : WasRead(sheet, j)
    /\ Within(DataRows(sheets[sheet])[i], TimeAt(sheet, i))
    /\ \A j \in 1..(i - 1) : ~Within(DataRows(sheets[sheet])[j], TimeAt(sheet, j))

\* Every row of the sheet was tried and none held the current time.
NoMatch(sheet) ==
    \A j \in 1..Len(DataRows(sheets[sheet])) :
        WasRead(sheet, j) /\ ~Within(DataRows(sheets[sheet])[j], TimeAt(sheet, j))

NothingDispatched ==
    /\ \A c \in Procs : pc[c] = "idle" /\ handles[c] = <<>> /\ spawned[c] = <<>>
    /\ ERR_MAP = <<>> /\ lock = 0

\* C33: the active profile is the label of the first row, in table order,
\* whose window holds the current time; when no account row holds it,
\* switch_if_need returns an error with nothing dispatched and the failure
\* counters untouched; the performance mode is the label of the first
\* performance row whose window holds the current time, and normal when
\* none does.
C33_ScheduleResolution ==
    /\ spc \in {"perf", "resolved"} =>
          \E i \in 1..Len(DataRows(sheets.account)) :
              FirstMatch("account", i) /\ account_type = DataRows(sheets.account)[i].label
    /\ (spc # "account" /\ NoMatch("account")) =>
          spc = "failed" /\ sret = <<"Err", "FeishuParserJsonError">> /\ NothingDispatched
    /\ spc \in {"account", "perf", "failed"} => NothingDispatched
    /\ spc = "resolved" =>
          \/ \E i \in 1..Len(DataRows(sheets.perf)) :
                 FirstMatch("perf", i) /\ perf_mode = DataRows(sheets.perf)[i].label
          \/ NoMatch("perf") /\ perf_mode = "NORMAL"

\* C33 witness: two account rows were tried, neither held the current time,
\* and the call returned the error.
C33_Witness ==
    /\ spc = "failed"
    /\ Len(DataRows(sheets.account)) = 2
    /\ NoMatch("account")
    /\ \E j \in 1..2 : DataRows(sheets.account)[j].start # DataRows(sheets.account)[j].end
    /\ sret = <<"Err", "FeishuParserJsonError">>

Degenerate(row) == IsTime(row.start) /\ row.start = row.end

\* The account row the lookup returned the label of, 0 when it returned none.
ReturnedRow ==
    IF spc \in {"perf", "resolved"} /\ \E j \in 1..Len(reads) : reads[j].sheet = "account"
    THEN reads[CHOOSE j \in 1..Len(reads) :
                   /\ reads[j].sheet = "account"
                   /\ \A k \in 1..Len(reads) : reads[k].sheet = "account" => k <= j].row
    ELSE 0

\* C34: a row whose start equals its end holds no time, not even that
\* instant: the lookup never returns its label, and a schedule of such rows
\* only resolves to no profile.
C34_DegenerateWindow ==
    /\ \A i \in 1..Len(DataRows(sheets.account)) :
          Degenerate(DataRows(sheets.account)[i]) => ReturnedRow # i
    /\ ( /\ spc # "account"
         /\ \A i \in 1..Len(DataRows(sheets.account)) : Degenerate(DataRows(sheets.account)[i]) )
       => (spc = "failed" /\ sret[1] = "Err" /\ account_type = "none")

\* C34 witness: a row from 12:00:00 to 12:00:00 was tried at 12:00:00, the
\* sheet held only such rows, and the lookup returned no profile.
C34_Witness ==
    /\ spc = "failed"
    /\ Len(DataRows(sheets.account)) >= 1
    /\ \A i \in 1..Len(DataRows(sheets.account)) : Degenerate(DataRows(sheets.account)[i])
    /\ \E j \in 1..Len(reads) :
          /\ reads[j].sheet = "account"
          /\ reads[j].now = DataRows(sheets.account)[reads[j].row].start

-----------------------------------------------------------------------------
(* scan and config_batch (SpecBatch). *)

\* The hosts whose task ended with telemetry.
OkHosts == {bips[i] : i \in {j \in 1..Len(bips) : bhandles[j] = "ok"}}

\* C35: scan spawns one task for each host number from offset to
\* offset + count - 1 (none when count <= 0) on the /24 of ip_demo's first
\* three octets, returns Ok, and returns the telemetry of exactly the hosts
\* whose task succeeded, in ascending order, so at most count entries.
C35_ScanRange ==
    bop = "scan" =>
        /\ Len(bips) = (IF bargs.count <= 0 THEN 0 ELSE bargs.count)
        /\ Len(bhandles) = Len(bips)
        /\ \A i \in 1..Len(bips) : bips[i] = bargs.offset + i - 1
        /\ bargs.ip_prefix = SubSeq(bargs.ip_demo, 1, 5)
        /\ bpc = "returned" =>
              /\ bret[1] = "Ok"
              /\ SeqToSet(bret[2]) = OkHosts
              /\ \A i, j \in 1..Len(bret[2]) : i < j => bret[2][i] < bret[2][j]
              /\ Len(bret[2]) <= (IF bargs.count <= 0 THEN 0 ELSE bargs.count)

\* C35 witness: scan of three hosts from 254 on 10.8.0, of which the first
\* and the last answered.
C35_Witness ==
    /\ bop = "scan" /\ bpc = "returned"
    /\ bargs.ip_prefix = <<"10", ".", "8", ".", "0">>
    /\ bargs.offset = 254 /\ bargs.count = 3
    /\ bhandles = <<"ok", "proto_err", "ok">>
    /\ bret = <<"Ok", <<254, 256>> >>

\* C36: config_batch returns Ok with the number of targets whose task both
\* detected the vendor and configured the device; the number lies between 0
\* and the number of targets, and a crashed task or a failed operation adds
\* nothing.
C36_ConfigBatchCount ==
    (bop = "config_batch" /\ bpc = "returned") =>
        /\ bret[1] = "Ok"
        /\ bret[2] = Cardinality({i \in 1..Len(bips) : bhandles[i] = "ok"})
        /\ bret[2] \in 0..Len(bips)

\* C36 witness: of four targets one was configured, one was of no known
\* vendor, one failed in the operation and one task crashed.
C36_Witness ==
    /\ bop = "config_batch" /\ bpc = "returned"
    /\ bhandles = <<"ok", "detect_err", "proto_err", "crash">>
    /\ bret = <<"Ok", 1>>

-----------------------------------------------------------------------------
(* Requests of one Ant switch (SpecAnt). *)

\* The requests of a kind that were sent to the device.
SentOf(kind) == TransfersOf(kind) \cap ReachedDevice(reqs)

\* C37: a switch that returned Ok after changing the device sent exactly one
\* set-config request and exactly one reboot request; a switch that found
\* nothing to change sent exactly one get-config request and nothing else.
C37_SingleWritePerSwitch ==
    (ant_calls >= 1 /\ ant_in.op = "switch" /\ antpc = "done" /\ antret = <<"Ok">>) =>
        IF TransfersOf("set_conf") # {}
        THEN Cardinality(SentOf("set_conf")) = 1 /\ Cardinality(SentOf("reboot")) = 1
        ELSE Cardinality(SentOf("get_conf")) = 1 /\ Len(reqs) = 1

(***************************************************************************)
(* avalon.rs: tcp_cmd, the end of the read loop                            *)
(***************************************************************************)

\* The loop was entered and left.
LoopLeft == tpc = "done" /\ ended_by \in {"eof", "would_block", "read_error"}

\* No room is left in buf.
BufferFull == total_bytes_read = 32768

\* The peer closed: everything it sent was read and read returned Ok(0).
PeerClosed == pos = Len(script) /\ peer_closes

\* The time three read timeouts and the two sleeps between them take.
ThreeNoDataSignals == 3 * timeout_seconds * TICKS_PER_SECOND + 2 * SLEEP_TICKS

\* How the loop may be left: end-of-stream from a closed peer or from a full
\* buffer, the third no-data signal of the call, or another read error.
ExitReasons ==
    LoopLeft =>
        /\ ended_by = "eof" => (PeerClosed \/ BufferFull)
        /\ ended_by = "would_block" =>
               (count = 3 /\ clock = ThreeNoDataSignals /\ ~BufferFull)

\* A full buffer is never overrun, and the read that finds it full ends the
\* loop.
FullBufferEndsLoop ==
    (tpc = "read" /\ BufferFull) =>
        (tpc' = "done" /\ total_bytes_read' = 32768 /\ buf' = buf)

\* C38 (as stated): the read loop always terminates, on end-of-stream, on
\* the third no-data signal, on any other read error or on a full buffer,
\* and with a full buffer the call returns the 32768 bytes it holds.
C38_Stated ==
    /\ (tpc = "read") ~> (tpc = "done")
    /\ [](total_bytes_read <= 32768 /\ ExitReasons)
    /\ [][FullBufferEndsLoop]_vars
    /\ []((LoopLeft /\ ended_by = "eof" /\ BufferFull) => tret = <<"Ok", buf>>)

\* C38: the read loop always terminates: it is left on end-of-stream, on the
\* third no-data signal of the call, on any other read error, or by the
\* read that finds the 32768-byte buffer full; the bytes held never exceed
\* 32768, and with a full buffer the call returns the 32768 bytes when they
\* are well-formed UTF-8 and the decoding error when they are not.
C38_ReadLoopTerminates ==
    /\ (tpc = "read") ~> (tpc = "done")
    /\ [](total_bytes_read <= 32768 /\ ExitReasons)
    /\ [][FullBufferEndsLoop]_vars
    /\ []((LoopLeft /\ ended_by = "eof" /\ BufferFull) =>
             tret = IF Decodes(encoding, 32768) THEN <<"Ok", buf>>
                    ELSE <<"Err", "FromUtf8Error">>)

\* A peer that sends without end filled the buffer after two chunks and a
\* no-data signal, and the call returned what the buffer holds.
C38_Witness ==
    /\ LoopLeft /\ ended_by = "eof" /\ BufferFull /\ peer_streams
    /\ script = <<"data", "wb", "data">>
    /\ buf = <<1, 3, 0>>
    /\ tret = <<"Ok", buf>>

\* The bytes the peer sent up to the read that ended the loop, in the order
\* it sent them.
Arrived ==
    DataChunks(SubSeq(script, 1, pos)) \o (IF BufferFull THEN <<0>> ELSE <<>>)

\* A command that does not wait returns "" after the write, with no read.
NoWaitReturn ==
    (tpc = "done" /\ ended_by = "no_wait") =>
        /\ ~is_waiting_write
        /\ tret = <<"Ok", <<>>>>
        /\ pos = 0 /\ buf = <<>> /\ total_bytes_read = 0 /\ count = 0 /\ clock = 0

\* A waiting command's read loop that ended with nothing read.
NothingReadReturn ==
    (ReadLoopEnded /\ total_bytes_read = 0) =>
        (is_waiting_write /\ Arrived = <<>> /\ tret = <<"Err", "TcpReadError">>)

\* C39 (as stated): a waiting command returns the received bytes in arrival
\* order when at least one byte was received before the loop ended and
\* the TCP-read error when the loop ended with none; a command that does
\* not wait returns an empty response right after the write, without a read.
C39_Stated ==
    /\ (ReadLoopEnded /\ total_bytes_read > 0) =>
           (is_waiting_write /\ tret = <<"Ok", Arrived>>)
    /\ NothingReadReturn
    /\ NoWaitReturn

\* C39: a waiting command whose loop ended (peer close, full buffer or
\* no-data limit) with at least one byte received returns the received
\* bytes in arrival order when they are well-formed UTF-8 and the decoding
\* error when they are not; with zero bytes received it returns the
\* TCP-read error; a command that does not wait returns an empty response
\* right after the write, without a read.
C39_TcpCommandResult ==
    /\ (ReadLoopEnded /\ total_bytes_read > 0) =>
           /\ is_waiting_write
           /\ buf = Arrived
           /\ tret = IF Decodes(encoding, total_bytes_read) THEN <<"Ok", Arrived>>
                      ELSE <<"Err", "FromUtf8Error">>
    /\ NothingReadReturn
    /\ NoWaitReturn

\* Two chunks with a no-data signal between them, then the peer closed: both
\* chunks were returned, in order.
C39_Witness ==
    /\ ReadLoopEnded /\ ended_by = "eof" /\ is_waiting_write /\ peer_closes
    /\ script = <<"data", "wb", "data">>
    /\ encoding = "ascii"
    /\ tret = <<"Ok", <<1, 3>>>>

\* A command that does not wait returned after its write.
C39_WitnessNoWait ==
    tpc = "done" /\ ended_by = "no_wait" /\ tret = <<"Ok", <<>>>>

====
